---- MODULE Spec2Model ----
(***************************************************************************)
(* Model of the Qualifind lead CRM: the application state held by App      *)
(* (src/App.tsx), the batch enrichment pipeline processEnrichment, the     *)
(* call wizard (src/components/CallWizard.tsx) and the lead detail panel   *)
(* of the project view.                                                    *)
(*                                                                         *)
(* Conventions.  A JavaScript null / undefined / '' string is the empty    *)
(* string "", a null object is NULL, an undefined appointment date is the  *)
(* empty tuple <<>>.  Every event-loop task (a click handler up to its     *)
(* first await, or the continuation after an await) is one action.         *)
(***************************************************************************)
EXTENDS Integers, Sequences, FiniteSets, TLC

NULL == [null |-> TRUE]

\* ---------------------------------------------------------------- bounds
MaxAnalyses == 2       \* analysis requests issued in one wizard session
MaxCalls == 2          \* call logs emitted over a behaviour
MaxMicRequests == 1    \* getUserMedia requests issued in one wizard session
MaxLeads == 7          \* leads of the searched project
MaxRuns == 1           \* processEnrichment runs started on the searched project
MaxAppRuns == 2        \* simulated processEnrichment runs started on the demo project
MaxSearches == 1       \* handleStartSearch calls that reach the search
MaxLists == 2          \* contact lists held at once
MaxListEnrich == 2     \* handleEnrichListLead calls over a behaviour
MaxLoadMore == 1       \* handleLoadMoreLeads calls that reach the search

VARIABLES
    \* --- App state (src/App.tsx)
    projects,            \* Project[]
    currentProject,      \* Project | null
    contactLists,        \* ContactList[]
    activeCallLead,      \* Lead | null
    activeCallContext,   \* CallContext | null
    \* --- ProjectView state (src/unnamed/part_001) and its LeadDetailPanel
    selectedLead,        \* Lead | null
    formData,            \* Lead | null
    \* --- App configuration and the processEnrichment runs (src/App.tsx)
    hasApiKey,           \* !!process.env.API_KEY
    isDemoMode,
    runs,                \* every processEnrichment call, oldest first, with its locals
    published,           \* the updateProjectState calls of the latest run step
    leadArrays,          \* the Lead[] objects processEnrichment made and kept or handed on
    listEnrich,          \* every handleEnrichListLead call, oldest first
    isLoadingMore,
    loadMore,            \* every handleLoadMoreLeads call that reached its await, oldest first
    searches,            \* every handleStartSearch call that reached its await, oldest first
    \* --- a function of the program called on its own
    evalCall,            \* its name and its arguments
    evalResult,          \* <<>> until it has returned, then <<value>>
    \* --- CallWizard state (src/components/CallWizard.tsx)
    callStep,
    appointmentDate,
    appointmentTime,
    notes,
    selectedOutcome,
    manualSentiment,
    generatedAnalysis,
    isAnalyzing,
    isRecording,
    recordingBlob,
    mediaRecorder,       \* mediaRecorderRef.current: "none" | "recording" | "inactive"
    onstopPending,       \* recorders stopped whose onstop event is still queued
    micPending,          \* getUserMedia promises not yet settled
    analysisQueue,       \* generateCallAnalysis promises not yet settled, oldest first
    \* --- observation of the calls made to collaborators
    analysisIssued,      \* generateCallAnalysis calls made in the current wizard session
    micIssued,           \* getUserMedia calls made in the current wizard session
    emitted              \* arguments of every onLogCall call, oldest first

appVars == <<projects, currentProject, contactLists, activeCallLead, activeCallContext>>
panelVars == <<selectedLead, formData>>
enrichVars == <<hasApiKey, isDemoMode, runs, published, leadArrays, listEnrich>>
loadVars == <<isLoadingMore, loadMore, searches>>
evalVars == <<evalCall, evalResult>>
otherVars == <<panelVars, enrichVars, loadVars, evalVars>>
wizardVars == <<callStep, appointmentDate, appointmentTime, notes, selectedOutcome,
                manualSentiment, generatedAnalysis, isAnalyzing, isRecording,
                recordingBlob, mediaRecorder, onstopPending, micPending,
                analysisQueue, analysisIssued, micIssued>>
vars == <<appVars, otherVars, wizardVars, emitted>>

\* ------------------------------------------------------ wizard vocabulary
FlowSteps == {"CONNECT", "REACHED_WHOM", "GATEKEEPER_PATH", "DM_PATH",
              "INTEREST_SUBPATH", "APPOINTMENT"}
CallSteps == FlowSteps \cup {"SUMMARY"}
Outcomes == {"No Answer", "Gatekeeper Blocked", "Not Interested", "Interested",
             "Appointment Set"}
Sentiments == {"Positive", "Neutral", "Negative"}
DateInputs == {"", "2026-12-01"}
TimeInputs == {"", "09:30"}
NotesInputs == {"", "call back in May"}

\* The words of an outcome string; String.prototype.includes is evaluated on
\* them (every needle used by generateCallAnalysis is a whole word).
OutcomeWords(outcome) ==
    CASE outcome = "No Answer" -> <<"No", "Answer">>
      [] outcome = "Gatekeeper Blocked" -> <<"Gatekeeper", "Blocked">>
      [] outcome = "Not Interested" -> <<"Not", "Interested">>
      [] outcome = "Interested" -> <<"Interested">>
      [] outcome = "Appointment Set" -> <<"Appointment", "Set">>
      [] OTHER -> <<>>

Includes(outcome, needle) ==
    LET hay == OutcomeWords(outcome)
    IN \E i \in 1..(Len(hay) - Len(needle) + 1) :
          \A j \in 1..Len(needle) : hay[i + j - 1] = needle[j]

\* Math.random() enters generateCallAnalysis twice: the adherence
\* floor(random * 23 + 75) and the score variance floor(random * 10 - 5).
AdherenceDraws == 75..97
VarianceDraws == -5..4
\* The draws the wizard's analysis requests are resolved with: both at
\* their least and both at their greatest.
AnalysisDraws == {<<75, -5>>, <<97, 4>>}

Min(a, b) == IF a < b THEN a ELSE b
Max(a, b) == IF a > b THEN a ELSE b

generateCallAnalysis(outcome, adherenceDraw, variance) ==
    LET branch ==
          IF Includes(outcome, <<"Appointment">>) THEN 1
          ELSE IF Includes(outcome, <<"Interested">>) THEN 2
          ELSE IF Includes(outcome, <<"No", "Answer">>) \/ Includes(outcome, <<"Gatekeeper">>) THEN 3
          ELSE IF Includes(outcome, <<"Not", "Interested">>) THEN 4
          ELSE 0
        baseScore == CASE branch = 1 -> 95 [] branch = 2 -> 80 [] branch = 3 -> 40
                       [] branch = 4 -> 60 [] OTHER -> 50
        sentiment == CASE branch \in {1, 2} -> "Positive" [] branch = 4 -> "Negative"
                       [] OTHER -> "Neutral"
        confidence == IF branch \in {1, 2} THEN "High" ELSE "Medium"
        adherence == IF branch = 3 THEN 100 ELSE adherenceDraw
    IN [callScore |-> Min(100, Max(0, baseScore + variance)),
        scriptAdherence |-> adherence,
        confidence |-> confidence,
        sentiment |-> sentiment,
        keyTakeaways |-> IF Includes(outcome, <<"Appointment">>) THEN "closing" ELSE "objection"]

\* ------------------------------------------------------------ call wizard
\* useState initial values of a freshly mounted CallWizard.
WizardMounted ==
    /\ callStep' = "CONNECT"
    /\ appointmentDate' = ""
    /\ appointmentTime' = ""
    /\ notes' = ""
    /\ selectedOutcome' = ""
    /\ manualSentiment' = ""
    /\ generatedAnalysis' = NULL
    /\ isAnalyzing' = FALSE
    /\ isRecording' = FALSE
    /\ recordingBlob' = FALSE
    /\ mediaRecorder' = "none"
    /\ onstopPending' = 0
    /\ micPending' = 0
    /\ analysisQueue' = <<>>
    /\ analysisIssued' = 0
    /\ micIssued' = 0

\* The wizard is rendered only while activeCallLead is set; once it is
\* unmounted its state is gone and the promises it left behind settle on a
\* component that no longer exists, so they are dropped with it.
WizardOpen == activeCallLead # NULL
WizardUnmounted == WizardMounted

\* setCallStep(next) of a flow button of step `from`.
StepButton(from, next) ==
    /\ WizardOpen
    /\ callStep = from
    /\ callStep' = next
    /\ UNCHANGED <<appVars, otherVars, emitted, appointmentDate, appointmentTime, notes,
                   selectedOutcome, manualSentiment, generatedAnalysis, isAnalyzing,
                   isRecording, recordingBlob, mediaRecorder, onstopPending, micPending,
                   analysisQueue, analysisIssued, micIssued>>

\* Mutant: a transferred call skips the decision-maker question.
TransferredSkipsQuestion == StepButton("GATEKEEPER_PATH", "INTEREST_SUBPATH")
\* Mutant: Back to Flow returns to the appointment form.
BackToAppointmentForm == StepButton("SUMMARY", "APPOINTMENT")

ConnectedButton == StepButton("CONNECT", "REACHED_WHOM")
GatekeeperButton == StepButton("REACHED_WHOM", "GATEKEEPER_PATH")
DecisionMakerButton == StepButton("REACHED_WHOM", "DM_PATH")
TransferredButton == StepButton("GATEKEEPER_PATH", "DM_PATH")
InterestedButton == StepButton("DM_PATH", "INTEREST_SUBPATH")
BookMeetingButton == StepButton("INTEREST_SUBPATH", "APPOINTMENT")
BackToFlowButton == StepButton("SUMMARY", "CONNECT")

\* stopRecording: mediaRecorderRef.current.stop() queues the recorder's onstop
\* event, and isRecording is cleared.
stopRecording ==
    IF mediaRecorder # "none" /\ isRecording
       THEN /\ mediaRecorder' = "inactive"
            /\ onstopPending' = onstopPending + (IF mediaRecorder = "recording" THEN 1 ELSE 0)
            /\ isRecording' = FALSE
       ELSE UNCHANGED <<mediaRecorder, onstopPending, isRecording>>

\* handleOutcomeSelection up to its await: the outcome, the forced stop of
\* the recording, the step and the analysis request.  Its continuation reads
\* the manualSentiment of the render the button was clicked in, and only
\* whether it is set.
handleOutcomeSelection(outcome) ==
    /\ WizardOpen
    /\ analysisIssued < MaxAnalyses
    /\ selectedOutcome' = outcome
    /\ IF isRecording THEN stopRecording
                      ELSE UNCHANGED <<mediaRecorder, onstopPending, isRecording>>
    /\ callStep' = "SUMMARY"
    /\ isAnalyzing' = TRUE
    /\ analysisQueue' = Append(analysisQueue, [outcome |-> outcome, manualSentimentSet |-> manualSentiment # ""])
    /\ analysisIssued' = analysisIssued + 1
    /\ UNCHANGED <<appVars, otherVars, emitted, appointmentDate, appointmentTime, notes,
                   manualSentiment, generatedAnalysis, recordingBlob, micPending, micIssued>>

\* Mutant: No Answer goes to the summary without asking for an analysis.
NoAnswerWithoutAnalysis ==
    /\ WizardOpen
    /\ callStep = "CONNECT"
    /\ selectedOutcome' = "No Answer"
    /\ callStep' = "SUMMARY"
    /\ UNCHANGED <<appVars, otherVars, emitted, appointmentDate, appointmentTime, notes,
                   manualSentiment, generatedAnalysis, isAnalyzing, isRecording, recordingBlob,
                   mediaRecorder, onstopPending, micPending, analysisQueue, analysisIssued,
                   micIssued>>

NoAnswerButton == callStep = "CONNECT" /\ handleOutcomeSelection("No Answer")
BlockedButton == callStep = "GATEKEEPER_PATH" /\ handleOutcomeSelection("Gatekeeper Blocked")
NotInterestedButton == callStep = "DM_PATH" /\ handleOutcomeSelection("Not Interested")
SendInfoButton == callStep = "INTEREST_SUBPATH" /\ handleOutcomeSelection("Interested")
\* Mutant: Confirm Booking is enabled without a date.
ConfirmBookingNeverDisabled ==
    callStep = "APPOINTMENT" /\ handleOutcomeSelection("Appointment Set")
\* disabled={!appointmentDate}
ConfirmBookingButton ==
    callStep = "APPOINTMENT" /\ appointmentDate # "" /\ handleOutcomeSelection("Appointment Set")
CancelDateButton == callStep = "APPOINTMENT" /\ handleOutcomeSelection("Interested")

\* The continuation of handleOutcomeSelection after its await.  Every
\* request waits on a timer of the same length, so they settle oldest first.
AnalysisResolved ==
    /\ WizardOpen
    /\ analysisQueue # <<>>
    /\ \E draw \in AnalysisDraws :
          LET request == Head(analysisQueue)
              analysis == generateCallAnalysis(request.outcome, draw[1], draw[2])
          IN /\ generatedAnalysis' = analysis
             /\ manualSentiment' = IF ~request.manualSentimentSet THEN analysis.sentiment
                                   ELSE manualSentiment
    /\ isAnalyzing' = FALSE
    /\ analysisQueue' = Tail(analysisQueue)
    /\ UNCHANGED <<appVars, otherVars, emitted, callStep, appointmentDate, appointmentTime,
                   notes, selectedOutcome, isRecording, recordingBlob, mediaRecorder,
                   onstopPending, micPending, analysisIssued, micIssued>>

\* onChange of the date and time inputs, rendered in the APPOINTMENT step.
SetAppointmentDate ==
    /\ WizardOpen
    /\ callStep = "APPOINTMENT"
    /\ \E d \in DateInputs : d # appointmentDate /\ appointmentDate' = d
    /\ UNCHANGED <<appVars, otherVars, emitted, callStep, appointmentTime, notes,
                   selectedOutcome, manualSentiment, generatedAnalysis, isAnalyzing,
                   isRecording, recordingBlob, mediaRecorder, onstopPending, micPending,
                   analysisQueue, analysisIssued, micIssued>>

SetAppointmentTime ==
    /\ WizardOpen
    /\ callStep = "APPOINTMENT"
    /\ \E t \in TimeInputs : t # appointmentTime /\ appointmentTime' = t
    /\ UNCHANGED <<appVars, otherVars, emitted, callStep, appointmentDate, notes,
                   selectedOutcome, manualSentiment, generatedAnalysis, isAnalyzing,
                   isRecording, recordingBlob, mediaRecorder, onstopPending, micPending,
                   analysisQueue, analysisIssued, micIssued>>

\* onChange of the Key Takeaways textarea, rendered in every step.
SetNotes ==
    /\ WizardOpen
    /\ \E n \in NotesInputs : n # notes /\ notes' = n
    /\ UNCHANGED <<appVars, otherVars, emitted, callStep, appointmentDate, appointmentTime,
                   selectedOutcome, manualSentiment, generatedAnalysis, isAnalyzing,
                   isRecording, recordingBlob, mediaRecorder, onstopPending, micPending,
                   analysisQueue, analysisIssued, micIssued>>

\* The sentiment selector of the SUMMARY step.
SetManualSentiment ==
    /\ WizardOpen
    /\ callStep = "SUMMARY"
    /\ \E s \in Sentiments : s # manualSentiment /\ manualSentiment' = s
    /\ UNCHANGED <<appVars, otherVars, emitted, callStep, appointmentDate, appointmentTime,
                   notes, selectedOutcome, generatedAnalysis, isAnalyzing,
                   isRecording, recordingBlob, mediaRecorder, onstopPending, micPending,
                   analysisQueue, analysisIssued, micIssued>>

\* The record toggle, rendered outside SUMMARY: stopRecording while
\* isRecording, else startRecording up to its await of getUserMedia.
RecordToggle ==
    /\ WizardOpen
    /\ callStep # "SUMMARY"
    /\ IF isRecording
          THEN /\ stopRecording
               /\ UNCHANGED <<micPending, micIssued>>
          ELSE /\ micIssued < MaxMicRequests
               /\ micPending' = micPending + 1
               /\ micIssued' = micIssued + 1
               /\ UNCHANGED <<mediaRecorder, onstopPending, isRecording>>
    /\ UNCHANGED <<appVars, otherVars, emitted, callStep, appointmentDate, appointmentTime,
                   notes, selectedOutcome, manualSentiment, generatedAnalysis, isAnalyzing,
                   recordingBlob, analysisQueue, analysisIssued>>

\* startRecording after getUserMedia resolved: a new recorder replaces the
\* one in the ref and is started.
MicGranted ==
    /\ WizardOpen
    /\ micPending > 0
    /\ micPending' = micPending - 1
    /\ mediaRecorder' = "recording"
    /\ isRecording' = TRUE
    /\ UNCHANGED <<appVars, otherVars, emitted, callStep, appointmentDate, appointmentTime,
                   notes, selectedOutcome, manualSentiment, generatedAnalysis, isAnalyzing,
                   recordingBlob, onstopPending, analysisQueue, analysisIssued, micIssued>>

\* startRecording after getUserMedia rejected: the catch only alerts.
MicDenied ==
    /\ WizardOpen
    /\ micPending > 0
    /\ micPending' = micPending - 1
    /\ UNCHANGED <<appVars, otherVars, emitted, callStep, appointmentDate, appointmentTime,
                   notes, selectedOutcome, manualSentiment, generatedAnalysis, isAnalyzing,
                   isRecording, recordingBlob, mediaRecorder, onstopPending,
                   analysisQueue, analysisIssued, micIssued>>

\* mediaRecorderRef.current.onstop
RecorderOnStop ==
    /\ WizardOpen
    /\ onstopPending > 0
    /\ onstopPending' = onstopPending - 1
    /\ recordingBlob' = TRUE
    /\ UNCHANGED <<appVars, otherVars, emitted, callStep, appointmentDate, appointmentTime,
                   notes, selectedOutcome, manualSentiment, generatedAnalysis, isAnalyzing,
                   isRecording, mediaRecorder, micPending, analysisQueue, analysisIssued,
                   micIssued>>

\* --------------------------------------------------------------- App state
LeadStatuses == {"New", "Reviewed", "Contacted", "Invalid"}

\* leads.map(l => l.id === updated.id ? updated : l)
ReplaceLead(leads, updated) ==
    [i \in 1..Len(leads) |-> IF leads[i].id = updated.id THEN updated ELSE leads[i]]

\* The CallLog of the demo project's third lead (App.tsx line 251).
DemoCallLog ==
    [id |-> 0, outcome |-> "Appointment Set", appointmentDate |-> <<"2026-11-04", "10:00">>,
     recordingUrl |-> "", recordingStatus |-> "", notes |-> "",
     analysis |-> [callScore |-> 92, scriptAdherence |-> 95, confidence |-> "High",
                   sentiment |-> "Positive", keyTakeaways |-> "", userNotes |-> ""]]

\* The three leads, the project and the contact list of startDemoMode.
\* Ratings are in tenths (48 is 4.8).
DemoLeads ==
    << [id |-> "L1", name |-> "Nebula Innovations GmbH", website |-> "https://example.com/nebula",
        phone |-> "+49 30 12345678", email |-> "hello@nebulainnovations.demo",
        ceo |-> "Sarah Miller", status |-> "New", confidence |-> "High", leadScore |-> 95,
        sourceUrl |-> "https://google.com/maps", rating |-> 48, isEnriching |-> FALSE,
        callLogs |-> <<>>, lastCallResult |-> "", appointmentDate |-> <<>>],
       [id |-> "L2", name |-> "Quantum Dynamics", website |-> "https://example.com/quantum",
        phone |-> "+49 30 98765432", email |-> "contact@quantum-dyn.demo",
        ceo |-> "", status |-> "Reviewed", confidence |-> "Medium", leadScore |-> 75,
        sourceUrl |-> "", rating |-> 42, isEnriching |-> FALSE,
        callLogs |-> <<>>, lastCallResult |-> "", appointmentDate |-> <<>>],
       [id |-> "L3", name |-> "Blue Ocean Digital", website |-> "",
        phone |-> "+49 170 5555555", email |-> "",
        ceo |-> "Markus Klein", status |-> "Contacted", confidence |-> "Low", leadScore |-> 40,
        sourceUrl |-> "https://linkedin.com", rating |-> 39, isEnriching |-> FALSE,
        callLogs |-> <<DemoCallLog>>, lastCallResult |-> "Appointment Set",
        appointmentDate |-> <<"2026-11-04", "10:00">>] >>

DemoProject ==
    [id |-> "P1", industry |-> "Software Startup",
     filters |-> [minRating |-> 40, mustHaveWebsite |-> TRUE],
     status |-> "Completed", leads |-> DemoLeads]

DemoContactLists == << [id |-> "C1", leads |-> <<DemoLeads[1]>>] >>

\* handleStartCall
handleStartCall(lead, context) ==
    /\ activeCallLead' = lead
    /\ activeCallContext' = context
    /\ WizardMounted

\* Mutant: closing the wizard keeps the chosen outcome on the lead.
CloseWizardKeepsOutcome ==
    /\ WizardOpen
    /\ activeCallLead' = NULL
    /\ activeCallContext' = NULL
    /\ WizardUnmounted
    /\ projects' = [i \in 1..Len(projects) |->
          [projects[i] EXCEPT !.leads =
              ReplaceLead(@, [activeCallLead EXCEPT !.lastCallResult = selectedOutcome])]]
    /\ UNCHANGED <<currentProject, contactLists, otherVars, emitted>>

\* The wizard's onClose (App.tsx lines 789-792).
CloseWizard ==
    /\ WizardOpen
    /\ activeCallLead' = NULL
    /\ activeCallContext' = NULL
    /\ WizardUnmounted
    /\ UNCHANGED <<projects, currentProject, contactLists, otherVars, emitted>>

\* Mutant: the wizard stays open after the log was stored.
handleLogCallStaysOpen(log, updatedLeadStatus, apptDate) ==
    LET updatedLead == [activeCallLead EXCEPT !.callLogs = <<log>> \o @,
                                              !.lastCallResult = log.outcome]
    IN /\ projects' = [i \in 1..Len(projects) |->
             [projects[i] EXCEPT !.leads = ReplaceLead(@, updatedLead)]]
       /\ UNCHANGED <<currentProject, contactLists, activeCallLead, activeCallContext>>

\* Mutant: the log is stored on every copy of the lead, in every project
\* and every contact list.
handleLogCallAllCopies(log, updatedLeadStatus, apptDate) ==
    LET updatedLead ==
          [activeCallLead EXCEPT
             !.callLogs = <<log>> \o @,
             !.lastCallResult = log.outcome,
             !.status = IF updatedLeadStatus # "" THEN updatedLeadStatus ELSE @,
             !.appointmentDate = IF apptDate # <<>> THEN apptDate ELSE @]
    IN /\ activeCallLead # NULL /\ activeCallContext # NULL
       /\ projects' = [i \in 1..Len(projects) |->
             [projects[i] EXCEPT !.leads = ReplaceLead(@, updatedLead)]]
       /\ currentProject' =
             IF currentProject # NULL
                THEN [currentProject EXCEPT !.leads = ReplaceLead(@, updatedLead)]
                ELSE currentProject
       /\ contactLists' = [i \in 1..Len(contactLists) |->
             [contactLists[i] EXCEPT !.leads = ReplaceLead(@, updatedLead)]]
       /\ activeCallLead' = NULL
       /\ activeCallContext' = NULL

\* Mutant: the status handed over by the wizard is dropped.
handleLogCallKeepsStatus(log, updatedLeadStatus, apptDate) ==
    LET updatedLead ==
          [activeCallLead EXCEPT
             !.callLogs = <<log>> \o @,
             !.lastCallResult = log.outcome,
             !.appointmentDate = IF apptDate # <<>> THEN apptDate ELSE @]
        parentId == activeCallContext.parentId
    IN /\ activeCallLead # NULL /\ activeCallContext # NULL
       /\ projects' = [i \in 1..Len(projects) |->
             IF activeCallContext.type = "project" /\ projects[i].id = parentId
                THEN [projects[i] EXCEPT !.leads = ReplaceLead(@, updatedLead)]
                ELSE projects[i]]
       /\ currentProject' =
             IF /\ activeCallContext.type = "project"
                /\ currentProject # NULL /\ currentProject.id = parentId
                THEN [currentProject EXCEPT !.leads = ReplaceLead(@, updatedLead)]
                ELSE currentProject
       /\ contactLists' = [i \in 1..Len(contactLists) |->
             IF activeCallContext.type = "list" /\ contactLists[i].id = parentId
                THEN [contactLists[i] EXCEPT !.leads = ReplaceLead(@, updatedLead)]
                ELSE contactLists[i]]
       /\ activeCallLead' = NULL
       /\ activeCallContext' = NULL

\* handleLogCall
handleLogCall(log, updatedLeadStatus, apptDate) ==
    LET updatedLead ==
          [activeCallLead EXCEPT
             !.callLogs = <<log>> \o @,
             !.lastCallResult = log.outcome,
             !.status = IF updatedLeadStatus # "" THEN updatedLeadStatus ELSE @,
             !.appointmentDate = IF apptDate # <<>> THEN apptDate ELSE @]
        parentId == activeCallContext.parentId
    IN /\ activeCallLead # NULL /\ activeCallContext # NULL
       /\ IF activeCallContext.type = "project"
             THEN /\ projects' = [i \in 1..Len(projects) |->
                        IF projects[i].id = parentId
                           THEN [projects[i] EXCEPT !.leads = ReplaceLead(@, updatedLead)]
                           ELSE projects[i]]
                  /\ currentProject' =
                        IF currentProject # NULL /\ currentProject.id = parentId
                           THEN [currentProject EXCEPT !.leads = ReplaceLead(@, updatedLead)]
                           ELSE currentProject
                  /\ UNCHANGED contactLists
             ELSE /\ contactLists' = [i \in 1..Len(contactLists) |->
                        IF contactLists[i].id = parentId
                           THEN [contactLists[i] EXCEPT !.leads = ReplaceLead(@, updatedLead)]
                           ELSE contactLists[i]]
                  /\ UNCHANGED <<projects, currentProject>>
       /\ activeCallLead' = NULL
       /\ activeCallContext' = NULL

\* `${appointmentDate}T${appointmentTime || '12:00'}:00`
ComposeAppointment(date, time) == <<date, IF time # "" THEN time ELSE "12:00">>

\* handleFinalSave, the onClick of Save Call Log (disabled while isAnalyzing),
\* with the onLogCall it ends in and the unmount that follows.
handleFinalSave ==
    LET finalApptDate ==
          IF selectedOutcome = "Appointment Set" /\ appointmentDate # ""
             THEN ComposeAppointment(appointmentDate, appointmentTime) ELSE <<>>
        ai == generatedAnalysis
        finalAnalysis ==
          [callScore |-> IF ai # NULL /\ ai.callScore # 0 THEN ai.callScore ELSE 50,
           scriptAdherence |-> IF ai # NULL THEN ai.scriptAdherence ELSE 0,
           confidence |-> IF ai # NULL THEN ai.confidence ELSE "Medium",
           sentiment |-> IF manualSentiment # "" THEN manualSentiment
                         ELSE IF ai # NULL THEN ai.sentiment ELSE "Neutral",
           keyTakeaways |-> IF notes # "" THEN notes
                            ELSE IF ai # NULL THEN ai.keyTakeaways ELSE "",
           userNotes |-> notes]
        newLog ==
          [id |-> Len(emitted) + 1,
           outcome |-> selectedOutcome,
           appointmentDate |-> finalApptDate,
           recordingUrl |-> IF recordingBlob THEN "blob" ELSE "",
           recordingStatus |-> IF recordingBlob THEN "Uploaded" ELSE "",
           analysis |-> finalAnalysis,
           notes |-> notes]
        newStatus ==
          IF selectedOutcome = "Appointment Set" \/ selectedOutcome = "Interested"
             THEN "Contacted"
             ELSE IF activeCallLead.status = "New" THEN "Contacted" ELSE ""
    IN /\ WizardOpen
       /\ callStep = "SUMMARY"
       /\ ~isAnalyzing
       /\ emitted' = Append(emitted, [log |-> newLog, updatedLeadStatus |-> newStatus,
                                      appointmentDate |-> finalApptDate])
       /\ handleLogCall(newLog, newStatus, finalApptDate)
       /\ WizardUnmounted
       /\ UNCHANGED otherVars

\* -------------------------------------------------------------- enrichment
\* Mutant: six requests to a batch.
WiderBatch == 5 + 1
\* const BATCH_SIZE = 5
BATCH_SIZE == 5

\* Mutant: every contact field weighs 20.
calculateLeadScoreFlat(lead) ==
    (IF lead.email # "" THEN 20 ELSE 0) + (IF lead.website # "" THEN 20 ELSE 0)
    + (IF lead.ceo # "" THEN 20 ELSE 0) + (IF lead.phone # "" THEN 20 ELSE 0)
    + (IF lead.sourceUrl # "" /\ lead.sourceUrl # "Manual" THEN 10 ELSE 0)
    + (IF lead.rating >= 40 THEN 10 ELSE 0)

\* calculateLeadScore; a rating of 4.0 is 40 tenths.
calculateLeadScore(lead) ==
    Min(100, (IF lead.email # "" THEN 25 ELSE 0)
             + (IF lead.website # "" THEN 25 ELSE 0)
             + (IF lead.ceo # "" THEN 15 ELSE 0)
             + (IF lead.phone # "" THEN 15 ELSE 0)
             + (IF lead.sourceUrl # "" /\ lead.sourceUrl # "Manual" THEN 10 ELSE 0)
             + (IF lead.rating >= 40 THEN 10 ELSE 0))

\* How one enrichLeadData call ends: the request fails, or the model's
\* answer, once parsed, holds no data, an email without an '@', or every
\* field.
EnrichResponses ==
    { [failed |-> TRUE, website |-> "", ceo |-> "", email |-> "", sourceUrl |-> ""],
      [failed |-> FALSE, website |-> "", ceo |-> "", email |-> "", sourceUrl |-> ""],
      [failed |-> FALSE, website |-> "", ceo |-> "Found Owner", email |-> "no-address",
       sourceUrl |-> ""],
      [failed |-> FALSE, website |-> "https://found.example", ceo |-> "Found Owner",
       email |-> "info@found.example", sourceUrl |-> "https://found.example/imprint"] }

\* data.email && data.email.includes('@') ? data.email.toLowerCase().trim() : null
ValidEmail(email) == IF email \in {"info@found.example"} THEN email ELSE ""

\* enrichLeadData with an API key configured: the lead with the fields of
\* the answer merged in, or, from the catch, the lead it was given.
enrichLeadData(lead, data) ==
    IF data.failed THEN lead ELSE
    [lead EXCEPT !.website = IF @ # "" THEN @ ELSE data.website,
                 !.ceo = IF data.ceo # "" THEN data.ceo ELSE @,
                 !.email = IF ValidEmail(data.email) # "" THEN ValidEmail(data.email) ELSE @,
                 !.sourceUrl = IF data.sourceUrl # "" THEN data.sourceUrl ELSE @]

\* Mutant: an email or a CEO is enough for 'High'.
BatchResultEagerHigh(lead, enriched) ==
    [enriched EXCEPT !.confidence = IF enriched.email # "" \/ enriched.ceo # "" THEN "High"
                                                                                 ELSE "Low",
                     !.leadScore = calculateLeadScore(enriched),
                     !.isEnriching = FALSE]

\* The callback of batch.map in processEnrichment, after its await.
BatchResult(lead, enriched) ==
    LET confidence == IF enriched.email # "" /\ enriched.ceo # "" /\ enriched.website # ""
                         THEN "High"
                         ELSE IF enriched.email # "" \/ enriched.ceo # "" THEN "Medium"
                         ELSE "Low"
    IN [enriched EXCEPT !.confidence = confidence,
                        !.leadScore = calculateLeadScore(enriched),
                        !.isEnriching = FALSE]

\* updateProjectState, as closed over by a render in which currentProject
\* was closureCurrentProject.  Several calls made by one task for the same
\* project leave the state of the last one.
updateProjectState(closureCurrentProject, updatedProject) ==
    /\ projects' = [i \in 1..Len(projects) |->
          IF projects[i].id = updatedProject.id THEN updatedProject ELSE projects[i]]
    /\ currentProject' =
          IF closureCurrentProject # NULL /\ closureCurrentProject.id = updatedProject.id
             THEN updatedProject ELSE currentProject

SeqIds(leads) == {leads[k].id : k \in 1..Len(leads)}

\* currentLeads.map(l => idsToEnrich.has(l.id) ? { ...l, isEnriching: true } : l)
MarkEnriching(leads, idsToEnrich) ==
    [k \in 1..Len(leads) |-> IF leads[k].id \in idsToEnrich
                                THEN [leads[k] EXCEPT !.isEnriching = TRUE] ELSE leads[k]]

\* The enrichLeadData calls of the batch leadsToEnrich.slice(i, i + BATCH_SIZE).
IssueBatch(leadsToEnrich, i, round) ==
    [k \in 1..Min(BATCH_SIZE, Len(leadsToEnrich) - i) |->
        [id |-> leadsToEnrich[i + k].id, round |-> round, resolved |-> FALSE, failed |-> FALSE]]

\* batchResults.forEach: each result replaces the lead with its id.
MergeBatch(currentLeads, batchResults) ==
    [k \in 1..Len(currentLeads) |->
        IF \E res \in batchResults : res.id = currentLeads[k].id
           THEN CHOOSE res \in batchResults : res.id = currentLeads[k].id
           ELSE currentLeads[k]]

\* A Lead[] object: the run and the line that made it, its elements, and
\* whether it has been handed to setProjects or setCurrentProject.  The
\* arrays of lines 122 and 137 are handed to updateProjectState as they are
\* (lines 123 and 139); the array of line 137 stays the run's currentLeads.
NewArray(run, line, leads) == [run |-> run, line |-> line, leads |-> leads, handed |-> TRUE]

\* batchResults.forEach with currentLeads[idx] = enrichedLead (lines 160-165):
\* the run's currentLeads object is written in place.
WriteInPlace(arrays, run, currentLeads) ==
    [a \in 1..Len(arrays) |->
        IF arrays[a].run = run /\ arrays[a].line = 137
           THEN [arrays[a] EXCEPT !.leads = currentLeads] ELSE arrays[a]]

\* processEnrichment up to its first await (or, in demo mode without an API
\* key, up to its return with the timer set).
processEnrichment(project, leadsToEnrich, closureCurrentProject) ==
    LET marked == MarkEnriching(project.leads, SeqIds(leadsToEnrich))
        first == [project EXCEPT !.leads = marked, !.status = "Enriching"]
        demo == isDemoMode /\ ~hasApiKey
        run == [demo |-> demo,
                project |-> project,
                closureCurrentProject |-> closureCurrentProject,
                leadsToEnrich |-> leadsToEnrich,
                currentLeads |-> marked,
                i |-> 0,
                requests |-> IF demo THEN <<>> ELSE IssueBatch(leadsToEnrich, 0, 1),
                batchResults |-> {},
                phase |-> IF demo THEN "timer" ELSE "batch"]
    IN /\ runs' = Append(runs, run)
       /\ updateProjectState(closureCurrentProject, first)
       /\ published' = <<[run |-> Len(runs) + 1, line |-> IF demo THEN 123 ELSE 139,
                          project |-> first]>>
       /\ leadArrays' = Append(leadArrays, NewArray(Len(runs) + 1, IF demo THEN 122 ELSE 137, marked))

\* handleBulkEnrich
handleBulkEnrich(leadIds) ==
    /\ currentProject # NULL
    /\ LET leadsToEnrich == SelectSeq(currentProject.leads, LAMBDA l : l.id \in leadIds)
       IN /\ Len(leadsToEnrich) # 0
          /\ processEnrichment(currentProject, leadsToEnrich, currentProject)
    /\ UNCHANGED <<contactLists, activeCallLead, activeCallContext, panelVars, hasApiKey,
                   isDemoMode, listEnrich, loadVars, evalVars, wizardVars, emitted>>

\* One enrichLeadData promise of a run settles.  While others of its batch
\* are outstanding only the result is kept; the last one lets Promise.all
\* continue in the same task: merge, publish (line 168), then either issue
\* the next batch or publish the final state (line 173).
EnrichResolved ==
    \E r \in 1..Len(runs) : \E q \in 1..Len(runs[r].requests) : \E data \in EnrichResponses :
       LET run == runs[r]
           lead == run.leadsToEnrich[q]
           requests == [run.requests EXCEPT ![q].resolved = TRUE, ![q].failed = data.failed]
           batchResults == run.batchResults \cup {BatchResult(lead, enrichLeadData(lead, data))}
           currentLeads == MergeBatch(run.currentLeads, batchResults)
           merged == [run.project EXCEPT !.leads = currentLeads]
           isStillEnriching == \E k \in 1..Len(currentLeads) : currentLeads[k].isEnriching
           final == [merged EXCEPT !.status = IF isStillEnriching THEN "Enriching"
                                                                  ELSE "Completed"]
           nextI == run.i + BATCH_SIZE
       IN /\ run.phase = "batch"
          /\ ~run.requests[q].resolved
          /\ IF \E k \in 1..Len(requests) : ~requests[k].resolved
                THEN /\ runs' = [runs EXCEPT ![r].requests = requests,
                                             ![r].batchResults = batchResults]
                     /\ UNCHANGED <<projects, currentProject, published, leadArrays>>
                ELSE IF nextI < Len(run.leadsToEnrich)
                THEN /\ runs' = [runs EXCEPT
                           ![r].requests = requests \o
                               IssueBatch(run.leadsToEnrich, nextI, run.requests[q].round + 1),
                           ![r].batchResults = {},
                           ![r].currentLeads = currentLeads,
                           ![r].i = nextI]
                     /\ updateProjectState(run.closureCurrentProject, merged)
                     /\ published' = <<[run |-> r, line |-> 168, project |-> merged]>>
                     /\ leadArrays' = Append(WriteInPlace(leadArrays, r, currentLeads),
                                             NewArray(r, 168, currentLeads))
                ELSE /\ runs' = [runs EXCEPT ![r].requests = requests,
                                             ![r].batchResults = {},
                                             ![r].currentLeads = currentLeads,
                                             ![r].i = nextI,
                                             ![r].phase = "done"]
                     /\ updateProjectState(run.closureCurrentProject, final)
                     /\ published' = <<[run |-> r, line |-> 168, project |-> merged],
                                       [run |-> r, line |-> 173, project |-> final]>>
                     /\ leadArrays' = Append(WriteInPlace(leadArrays, r, currentLeads),
                                             NewArray(r, 168, currentLeads))
          /\ UNCHANGED <<contactLists, activeCallLead, activeCallContext, panelVars,
                         hasApiKey, isDemoMode, listEnrich, loadVars, evalVars, wizardVars, emitted>>

\* Math.floor(Math.random() * 50) + 50 at its least and at its greatest.
DemoScoreDraws == {50, 99}

\* The 2000 ms timer of a demo run; the timers fire in the order they were set.
DemoTimeout ==
    \E r \in 1..Len(runs) :
       LET run == runs[r]
           idsToEnrich == SeqIds(run.leadsToEnrich)
       IN /\ run.phase = "timer"
          /\ \A o \in 1..(r - 1) : runs[o].phase # "timer"
          /\ \E score \in [idsToEnrich -> DemoScoreDraws] :
                LET finishedLeads ==
                      [k \in 1..Len(run.currentLeads) |->
                          IF run.currentLeads[k].id \in idsToEnrich
                             THEN [run.currentLeads[k] EXCEPT
                                      !.isEnriching = FALSE,
                                      !.leadScore = score[run.currentLeads[k].id]]
                             ELSE run.currentLeads[k]]
                    final == [run.project EXCEPT !.leads = finishedLeads, !.status = "Completed"]
                IN /\ runs' = [runs EXCEPT ![r].phase = "done", ![r].currentLeads = finishedLeads]
                   /\ updateProjectState(run.closureCurrentProject, final)
                   /\ published' = <<[run |-> r, line |-> 127, project |-> final]>>
                   /\ leadArrays' = Append(leadArrays, NewArray(r, 126, finishedLeads))
          /\ UNCHANGED <<contactLists, activeCallLead, activeCallContext, panelVars,
                         hasApiKey, isDemoMode, listEnrich, loadVars, evalVars, wizardVars, emitted>>

\* The selections of the project table that the enrich button is pressed
\* with: the first n rows, or one row.
Selections(leads) ==
    {{leads[k].id : k \in 1..n} : n \in 1..Len(leads)} \cup {{leads[k].id} : k \in 1..Len(leads)}

\* A lead as handleStartSearch builds it from a search result, after an
\* enrichment that found nothing.
SearchedLead(k) ==
    LET raw == [id |-> "S" \o ToString(k), name |-> "Business " \o ToString(k), website |-> IF k % 2 = 1 THEN "https://example.com" ELSE "",
                phone |-> IF k % 3 = 0 THEN "" ELSE "+49 30 1111",
                email |-> "", ceo |-> "", status |-> "New", confidence |-> "Low", leadScore |-> 0,
                sourceUrl |-> "https://google.com/maps", rating |-> IF k % 2 = 0 THEN 45 ELSE 38,
                isEnriching |-> FALSE, callLogs |-> <<>>, lastCallResult |-> "",
                appointmentDate |-> <<>>]
    IN [raw EXCEPT !.leadScore = calculateLeadScore(raw)]

\* The project of a finished search.  App keeps two copies of it: the one
\* in projects, which the enrichment of the search completed, and
\* currentProject, which is that copy once the project is opened from the
\* dashboard and the copy of line 344 (status 'Enriching') before that.
SearchedProject(status) ==
    [id |-> "P1", industry |-> "Dentist",
     filters |-> [minRating |-> 0, mustHaveWebsite |-> FALSE],
     status |-> status, leads |-> [k \in 1..MaxLeads |-> SearchedLead(k)]]

\* ------------------------------------------------- one call-wizard session
\* The leads a call can be started on from a table row: a row offers its
\* call button when the lead has a phone number.
ProjectCallTargets ==
    IF currentProject = NULL THEN {}
    ELSE {[lead |-> currentProject.leads[i],
           context |-> [type |-> "project", parentId |-> currentProject.id]] :
             i \in {j \in 1..Len(currentProject.leads) : currentProject.leads[j].phone # ""}}

ListCallTargets ==
    UNION {{[lead |-> contactLists[k].leads[i],
             context |-> [type |-> "list", parentId |-> contactLists[k].id]] :
               i \in {j \in 1..Len(contactLists[k].leads) : contactLists[k].leads[j].phone # ""}} :
           k \in 1..Len(contactLists)}

\* The state after startDemoMode.
DemoLoaded ==
    /\ projects = <<DemoProject>>
    /\ currentProject = DemoProject
    /\ contactLists = DemoContactLists
    /\ selectedLead = NULL
    /\ formData = NULL
    /\ isDemoMode = TRUE
    /\ runs = <<>>
    /\ leadArrays = <<>>
    /\ listEnrich = <<>>
    /\ published = <<>>
    /\ isLoadingMore = FALSE
    /\ loadMore = <<>>
    /\ searches = <<>>
    /\ evalCall = [fn |-> "none"]
    /\ evalResult = <<>>
    /\ emitted = <<>>

WizardFresh ==
    /\ callStep = "CONNECT"
    /\ appointmentDate = ""
    /\ appointmentTime = ""
    /\ notes = ""
    /\ selectedOutcome = ""
    /\ manualSentiment = ""
    /\ generatedAnalysis = NULL
    /\ isAnalyzing = FALSE
    /\ isRecording = FALSE
    /\ recordingBlob = FALSE
    /\ mediaRecorder = "none"
    /\ onstopPending = 0
    /\ micPending = 0
    /\ analysisQueue = <<>>
    /\ analysisIssued = 0
    /\ micIssued = 0

\* The demo data with the wizard just opened from a row of the project
\* table or of the contact list: on the lead that was never called (in
\* either container) or on the one that already has a call log.
InitWizard ==
    /\ DemoLoaded
    /\ hasApiKey = FALSE
    /\ \E target \in ProjectCallTargets \cup ListCallTargets :
          /\ target.lead.id \in {"L1", "L3"}
          /\ activeCallLead = target.lead
          /\ activeCallContext = target.context
    /\ WizardFresh

FlowButtons ==
    \/ ConnectedButton
    \/ GatekeeperButton
    \/ DecisionMakerButton
    \/ TransferredButton
    \/ InterestedButton
    \/ BookMeetingButton
    \/ BackToFlowButton
    \/ NoAnswerButton
    \/ BlockedButton
    \/ NotInterestedButton
    \/ SendInfoButton
    \/ ConfirmBookingButton
    \/ CancelDateButton

\* One session of the wizard with its form inputs (date, time, notes,
\* sentiment); the microphone is left alone.
NextWizard ==
    \/ FlowButtons
    \/ AnalysisResolved
    \/ SetAppointmentDate
    \/ SetAppointmentTime
    \/ SetNotes
    \/ SetManualSentiment
    \/ handleFinalSave
    \/ CloseWizard

SpecWizard == InitWizard /\ [][NextWizard]_vars

\* One session of the wizard with the recording toggle and the events of
\* the microphone and the recorder; the time and sentiment inputs are left
\* alone.
NextRecording ==
    \/ FlowButtons
    \/ AnalysisResolved
    \/ SetAppointmentDate
    \/ SetNotes
    \/ RecordToggle
    \/ MicGranted
    \/ MicDenied
    \/ RecorderOnStop
    \/ handleFinalSave
    \/ CloseWizard

SpecRecording == InitWizard /\ [][NextRecording]_vars

\* -------------------------------------------------- enrichment of a project
WizardAbsent == activeCallLead = NULL /\ activeCallContext = NULL /\ WizardFresh

\* Either a searched project with an API key configured, shown as the copy
\* of the dashboard or as the copy the search left open, or the demo data
\* without an API key; nothing else is open.
InitEnrich ==
    /\ \/ /\ hasApiKey = TRUE
          /\ isDemoMode = FALSE
          /\ projects = <<SearchedProject("Completed")>>
          /\ \E status \in {"Completed", "Enriching"} : currentProject = SearchedProject(status)
          /\ contactLists = <<>>
       \/ /\ hasApiKey = FALSE
          /\ isDemoMode = TRUE
          /\ projects = <<DemoProject>>
          /\ currentProject = DemoProject
          /\ contactLists = DemoContactLists
    /\ selectedLead = NULL
    /\ formData = NULL
    /\ runs = <<>>
    /\ leadArrays = <<>>
    /\ listEnrich = <<>>
    /\ published = <<>>
    /\ isLoadingMore = FALSE
    /\ loadMore = <<>>
    /\ searches = <<>>
    /\ evalCall = [fn |-> "none"]
    /\ evalResult = <<>>
    /\ emitted = <<>>
    /\ WizardAbsent

\* The enrich button of the project table (handleBulkEnrichClick), which the
\* detail panel and the call wizard cover while they are open.
BulkEnrichClick(maxRuns) ==
    /\ Len(runs) < maxRuns
    /\ currentProject # NULL
    /\ selectedLead = NULL
    /\ ~WizardOpen
    /\ \E leadIds \in Selections(currentProject.leads) : handleBulkEnrich(leadIds)

BulkEnrich == BulkEnrichClick(MaxRuns)

NextEnrich ==
    \/ BulkEnrich
    \/ EnrichResolved
    \/ DemoTimeout

SpecEnrich == InitEnrich /\ [][NextEnrich]_vars

\* ------------------------------------------------------------ detail panel
\* A click on a row's name or edit button: setSelectedLead(lead), and the
\* panel's effect copies the lead into formData.
OpenLeadPanel ==
    /\ currentProject # NULL
    /\ selectedLead = NULL
    /\ ~WizardOpen
    /\ \E k \in 1..Len(currentProject.leads) :
          /\ selectedLead' = currentProject.leads[k]
          /\ formData' = currentProject.leads[k]
    /\ UNCHANGED <<appVars, enrichVars, loadVars, evalVars, wizardVars, emitted>>

\* The edits made in the panel: the status select and the phone input.
PanelEdits == {<<"status", "Invalid">>, <<"phone", "">>}

\* handleChange
handleChange ==
    /\ selectedLead # NULL
    /\ ~WizardOpen
    /\ \E edit \in PanelEdits :
          /\ formData[edit[1]] # edit[2]
          /\ formData' = [formData EXCEPT ![edit[1]] = edit[2]]
    /\ UNCHANGED <<appVars, selectedLead, enrichVars, loadVars, evalVars, wizardVars, emitted>>

\* ProjectView.handleLeadUpdate
handleLeadUpdate(updatedLead) ==
    updateProjectState(currentProject,
                       [currentProject EXCEPT !.leads = ReplaceLead(@, updatedLead)])

\* The panel's handleSave: onUpdate(formData), onClose().
handleSave ==
    /\ selectedLead # NULL
    /\ ~WizardOpen
    /\ handleLeadUpdate(formData)
    /\ selectedLead' = NULL
    /\ formData' = NULL
    /\ UNCHANGED <<contactLists, activeCallLead, activeCallContext, enrichVars, loadVars,
                   evalVars, wizardVars, emitted>>

\* The panel's close button and its backdrop: onClose().
ClosePanel ==
    /\ selectedLead # NULL
    /\ ~WizardOpen
    /\ selectedLead' = NULL
    /\ formData' = NULL
    /\ UNCHANGED <<appVars, enrichVars, loadVars, evalVars, wizardVars, emitted>>

\* The call button beside the panel's phone input: onStartCall(formData).
PanelStartCall ==
    /\ selectedLead # NULL
    /\ ~WizardOpen
    /\ Len(emitted) < MaxCalls
    /\ formData.phone # ""
    /\ handleStartCall(formData, [type |-> "project", parentId |-> currentProject.id])
    /\ UNCHANGED <<projects, currentProject, contactLists, otherVars, emitted>>

\* The call button of a row of the project table or of a contact list.
RowStartCall ==
    /\ selectedLead = NULL
    /\ ~WizardOpen
    /\ Len(emitted) < MaxCalls
    /\ \E target \in ProjectCallTargets \cup ListCallTargets :
          handleStartCall(target.lead, target.context)
    /\ UNCHANGED <<projects, currentProject, contactLists, otherVars, emitted>>

\* ---------------------------------------------------------------- load more
\* What searchBusinesses resolves with: nothing (also when the call fails),
\* one new business, a business already in the demo project under another
\* spelling followed by one without a website, or three results without a
\* name, the second also without a rating.
SearchResponses ==
    { <<>>,
      << [name |-> "", website |-> "https://example.com/a", phone |-> "", rating |-> 45],
         [name |-> "", website |-> "https://example.com/b", phone |-> "+49 30 4444", rating |-> 0],
         [name |-> "", website |-> "https://example.com/c", phone |-> "+49 30 5555", rating |-> 41] >>,
      << [name |-> "Nova Labs", website |-> "https://example.com/nova", phone |-> "+49 30 2222",
          rating |-> 45] >>,
      << [name |-> "NEBULA INNOVATIONS GMBH", website |-> "https://example.com/nebula",
          phone |-> "", rating |-> 47],
         [name |-> "Harbor Works", website |-> "", phone |-> "+49 30 3333", rating |-> 45] >> }

\* A comparison of names as written, letter case included.
toLowerCaseKeepsCase(name) == name

\* String.prototype.toLowerCase on the names that occur.
toLowerCase(name) ==
    CASE name \in {"Nebula Innovations GmbH", "NEBULA INNOVATIONS GMBH"} -> "nebula innovations gmbh"
      [] name = "Quantum Dynamics" -> "quantum dynamics"
      [] name = "Blue Ocean Digital" -> "blue ocean digital"
      [] name = "Nova Labs" -> "nova labs"
      [] name = "Harbor Works" -> "harbor works"
      [] name = "Unknown" -> "unknown"
      [] OTHER -> name

\* handleLoadMoreLeads up to its await.  Without an API key it returns (after
\* an alert in demo mode) with nothing changed.
handleLoadMoreLeads ==
    /\ currentProject # NULL
    /\ selectedLead = NULL
    /\ ~WizardOpen
    /\ Len(loadMore) < MaxLoadMore
    /\ ~((~hasApiKey /\ ~isDemoMode) \/ isLoadingMore)
    /\ ~(isDemoMode /\ ~hasApiKey)
    /\ isLoadingMore' = TRUE
    /\ loadMore' = Append(loadMore, [project |-> currentProject,
                                     closureCurrentProject |-> currentProject,
                                     rawLeads |-> <<>>, settled |-> FALSE])
    /\ UNCHANGED <<appVars, panelVars, enrichVars, searches, evalVars, wizardVars, emitted>>

\* handleLoadMoreLeads after searchBusinesses resolved.
LoadMoreResolved ==
    \E n \in 1..Len(loadMore) : \E rawLeads \in SearchResponses :
       LET project == loadMore[n].project
           built == [k \in 1..Len(rawLeads) |->
                       LET partialLead ==
                             [id |-> "N" \o ToString(n) \o "-" \o ToString(k),
                              name |-> IF rawLeads[k].name # "" THEN rawLeads[k].name ELSE "Unknown",
                              website |-> rawLeads[k].website, phone |-> rawLeads[k].phone,
                              email |-> "", ceo |-> "", status |-> "New", confidence |-> "Low",
                              leadScore |-> 0, sourceUrl |-> "", rating |-> rawLeads[k].rating,
                              isEnriching |-> FALSE, callLogs |-> <<>>, lastCallResult |-> "",
                              appointmentDate |-> <<>>]
                       IN [partialLead EXCEPT !.leadScore = calculateLeadScore(partialLead)]]
           withWebsite == IF project.filters.mustHaveWebsite
                             THEN SelectSeq(built, LAMBDA l : l.website # "") ELSE built
           rated == IF project.filters.minRating > 0
                       THEN SelectSeq(withWebsite, LAMBDA l : l.rating >= project.filters.minRating)
                       ELSE withWebsite
           existingIds == {toLowerCase(project.leads[k].name) : k \in 1..Len(project.leads)}
           newLeads == SelectSeq(rated, LAMBDA l : toLowerCase(l.name) \notin existingIds)
       IN /\ ~loadMore[n].settled
          /\ IF Len(newLeads) > 0
                THEN updateProjectState(loadMore[n].closureCurrentProject,
                                        [project EXCEPT !.leads = @ \o newLeads])
                ELSE UNCHANGED <<projects, currentProject>>
          /\ isLoadingMore' = FALSE
          /\ loadMore' = [loadMore EXCEPT ![n].settled = TRUE, ![n].rawLeads = rawLeads]
          /\ UNCHANGED <<contactLists, activeCallLead, activeCallContext, panelVars, enrichVars,
                         searches, evalVars, wizardVars, emitted>>

\* ------------------------------------------------------------------- search
\* The filters of the search form: none, or a minimum rating of 4.2
\* together with or without the website requirement.
SearchParamsInputs == [minRating : {0, 42}, mustHaveWebsite : BOOLEAN]

\* No filtering at all.
KeepAll(leads, filters) == leads

\* The post-filters of a search (lines 339-340); a missing rating is 0.
PostFilter(leads, filters) ==
    LET withWebsite == IF filters.mustHaveWebsite
                          THEN SelectSeq(leads, LAMBDA l : l.website # "") ELSE leads
    IN IF filters.minRating > 0
          THEN SelectSeq(withWebsite, LAMBDA l : l.rating >= filters.minRating)
          ELSE withWebsite

\* handleStartSearch up to its await: the project shell is prepended to
\* projects and opened.  Without an API key it returns after an alert.
handleStartSearch ==
    /\ selectedLead = NULL
    /\ ~WizardOpen
    /\ Len(searches) < MaxSearches
    /\ ~(~hasApiKey /\ ~isDemoMode)
    /\ ~(isDemoMode /\ ~hasApiKey)
    /\ \E params \in SearchParamsInputs :
          LET newProject == [id |-> "Q" \o ToString(Len(searches) + 1), industry |-> "Dentist",
                             filters |-> params, status |-> "Fetching", leads |-> <<>>]
          IN /\ projects' = <<newProject>> \o projects
             /\ currentProject' = newProject
             /\ searches' = Append(searches, [params |-> params, newProject |-> newProject,
                                              closureCurrentProject |-> currentProject,
                                              rawLeads |-> <<>>, settled |-> FALSE])
    /\ UNCHANGED <<contactLists, activeCallLead, activeCallContext, panelVars, enrichVars,
                   isLoadingMore, loadMore, evalVars, wizardVars, emitted>>

\* handleStartSearch after searchBusinesses resolved: the leads are built
\* and filtered, the project is published and opened with them, and
\* processEnrichment runs up to its first await, or to its end when no lead
\* is left.  The closure's currentProject is not the new project, so the
\* updateProjectState calls of processEnrichment leave the opened copy alone.
SearchResolved ==
    \E n \in 1..Len(searches) : \E rawLeads \in SearchResponses :
       LET params == searches[n].params
           built == [k \in 1..Len(rawLeads) |->
                       LET partialLead ==
                             [id |-> "R" \o ToString(n) \o "-" \o ToString(k),
                              name |-> IF rawLeads[k].name # "" THEN rawLeads[k].name ELSE "Unknown",
                              website |-> rawLeads[k].website, phone |-> rawLeads[k].phone,
                              email |-> "", ceo |-> "", status |-> "New", confidence |-> "Low",
                              leadScore |-> 0, sourceUrl |-> "", rating |-> rawLeads[k].rating,
                              isEnriching |-> FALSE, callLogs |-> <<>>, lastCallResult |-> "",
                              appointmentDate |-> <<>>]
                       IN [partialLead EXCEPT !.leadScore = calculateLeadScore(partialLead)]]
           leads == PostFilter(built, params)
           projectWithRawLeads == [searches[n].newProject EXCEPT !.leads = leads,
                                                                 !.status = "Enriching"]
           marked == MarkEnriching(leads, SeqIds(leads))
           first == [projectWithRawLeads EXCEPT !.leads = marked]
           final == [first EXCEPT !.status = "Completed"]
           run == [demo |-> FALSE,
                   project |-> projectWithRawLeads,
                   closureCurrentProject |-> searches[n].closureCurrentProject,
                   leadsToEnrich |-> leads,
                   currentLeads |-> marked,
                   i |-> 0,
                   requests |-> IssueBatch(leads, 0, 1),
                   batchResults |-> {},
                   phase |-> IF Len(leads) = 0 THEN "done" ELSE "batch"]
           last == IF Len(leads) = 0 THEN final ELSE first
       IN /\ ~searches[n].settled
          /\ projects' = [i \in 1..Len(projects) |->
                IF projects[i].id = last.id THEN last ELSE projects[i]]
          /\ currentProject' = projectWithRawLeads
          /\ runs' = Append(runs, run)
          /\ published' = <<[run |-> Len(runs) + 1, line |-> 139, project |-> first]>> \o
                IF Len(leads) = 0
                   THEN <<[run |-> Len(runs) + 1, line |-> 173, project |-> final]>> ELSE <<>>
          /\ leadArrays' = Append(leadArrays, NewArray(Len(runs) + 1, 137, marked))
          /\ searches' = [searches EXCEPT ![n].settled = TRUE, ![n].rawLeads = rawLeads]
          /\ UNCHANGED <<contactLists, activeCallLead, activeCallContext, panelVars, hasApiKey,
                         isDemoMode, listEnrich, isLoadingMore, loadMore, evalVars, wizardVars, emitted>>

\* ------------------------------------------------------------ the whole app
AppBulkEnrich == BulkEnrichClick(MaxAppRuns)

\* A call that ends on the first question: no answer, the analysis, then
\* the save or the close.
ShortCall ==
    \/ NoAnswerButton
    \/ AnalysisResolved
    \/ handleFinalSave
    \/ CloseWizard

\* Demo mode without an API key, nothing open.
Init ==
    /\ DemoLoaded
    /\ hasApiKey = FALSE
    /\ WizardAbsent

\* The project table with its detail panel, and calls from the rows and
\* from the panel.
Next ==
    \/ OpenLeadPanel
    \/ handleChange
    \/ handleSave
    \/ ClosePanel
    \/ PanelStartCall
    \/ RowStartCall
    \/ ShortCall

Spec == Init /\ [][Next]_vars

\* Demo mode without an API key: simulated enrichment runs, one started
\* while the timer of the other is pending.
NextDemoEnrich ==
    \/ AppBulkEnrich
    \/ DemoTimeout

SpecDemoEnrich == Init /\ [][NextDemoEnrich]_vars

\* The demo data with an API key in the environment: calls from the rows
\* while a search for more leads is under way.
InitKeyed ==
    /\ DemoLoaded
    /\ hasApiKey = TRUE
    /\ WizardAbsent

NextKeyed ==
    \/ RowStartCall
    \/ ShortCall
    \/ handleLoadMoreLeads
    \/ LoadMoreResolved

SpecKeyed == InitKeyed /\ [][NextKeyed]_vars

\* A searched project with an API key configured, its enrichment finished
\* and the project opened from the dashboard: the detail panel alone.
InitSearched ==
    /\ hasApiKey = TRUE
    /\ isDemoMode = FALSE
    /\ projects = <<SearchedProject("Completed")>>
    /\ currentProject = SearchedProject("Completed")
    /\ contactLists = <<>>
    /\ selectedLead = NULL
    /\ formData = NULL
    /\ runs = <<>>
    /\ leadArrays = <<>>
    /\ listEnrich = <<>>
    /\ published = <<>>
    /\ isLoadingMore = FALSE
    /\ loadMore = <<>>
    /\ searches = <<>>
    /\ evalCall = [fn |-> "none"]
    /\ evalResult = <<>>
    /\ emitted = <<>>
    /\ WizardAbsent

NextPanel ==
    \/ OpenLeadPanel
    \/ handleChange
    \/ handleSave
    \/ ClosePanel

SpecPanel == InitSearched /\ [][NextPanel]_vars

\* The App with an API key and no project yet: a search from the form, its
\* enrichment, and a search for more leads in the project it opened.
InitEmpty ==
    /\ hasApiKey = TRUE
    /\ isDemoMode = FALSE
    /\ projects = <<>>
    /\ currentProject = NULL
    /\ contactLists = <<>>
    /\ selectedLead = NULL
    /\ formData = NULL
    /\ runs = <<>>
    /\ leadArrays = <<>>
    /\ listEnrich = <<>>
    /\ published = <<>>
    /\ isLoadingMore = FALSE
    /\ loadMore = <<>>
    /\ searches = <<>>
    /\ evalCall = [fn |-> "none"]
    /\ evalResult = <<>>
    /\ emitted = <<>>
    /\ WizardAbsent

NextSearch ==
    \/ handleStartSearch
    \/ SearchResolved
    \/ EnrichResolved
    \/ handleLoadMoreLeads
    \/ LoadMoreResolved

SpecSearch == InitEmpty /\ [][NextSearch]_vars

\* handleSaveToContactList, called by the save-to-list dialog of the
\* project table with the selected leads: a new list holding them, or the
\* leads an existing list does not hold by id appended to it.
handleSaveToContactList ==
    /\ currentProject # NULL
    /\ selectedLead = NULL
    /\ ~WizardOpen
    /\ \E leadIds \in Selections(currentProject.leads) :
          LET leads == SelectSeq(currentProject.leads, LAMBDA l : l.id \in leadIds)
          IN \/ /\ Len(contactLists) < MaxLists
                /\ contactLists' = Append(contactLists,
                      [id |-> "C" \o ToString(Len(contactLists) + 1), leads |-> leads])
             \/ \E c \in 1..Len(contactLists) :
                   LET existingIds == SeqIds(contactLists[c].leads)
                       uniqueNewLeads == SelectSeq(leads, LAMBDA l : l.id \notin existingIds)
                   IN contactLists' = [contactLists EXCEPT ![c].leads = @ \o uniqueNewLeads]
    /\ UNCHANGED <<projects, currentProject, activeCallLead, activeCallContext, otherVars,
                   wizardVars, emitted>>

\* The demo data without an API key: leads saved to contact lists, and
\* calls from the rows of the project table and of the lists.
NextLists ==
    \/ handleSaveToContactList
    \/ RowStartCall
    \/ ShortCall

SpecLists == Init /\ [][NextLists]_vars

\* The demo data without an API key: one call, started from a row or from
\* the detail panel with the edits made there, taken through the whole
\* wizard.
FirstPanelCall == emitted = <<>> /\ PanelStartCall
FirstRowCall == emitted = <<>> /\ RowStartCall

NextPanelCall ==
    \/ OpenLeadPanel
    \/ handleChange
    \/ ClosePanel
    \/ FirstPanelCall
    \/ FirstRowCall
    \/ NextWizard

SpecPanelCall == Init /\ [][NextPanelCall]_vars

\* handleEnrichListLead after its await: finalLead.
ListEnrichResult(lead, enriched) ==
    LET confidence == IF enriched.email # "" /\ enriched.ceo # "" /\ enriched.website # ""
                         THEN "High"
                         ELSE IF enriched.email # "" \/ enriched.ceo # "" THEN "Medium"
                         ELSE "Low"
    IN [enriched EXCEPT !.confidence = confidence,
                        !.leadScore = calculateLeadScore(enriched),
                        !.isEnriching = FALSE]

\* list.leads.map(l => l.id === lead.id ? { ...l, isEnriching: true } : l)
\* on the list with the given id (lines 422-430).
MarkListLead(lists, listId, lead) ==
    [c \in 1..Len(lists) |->
        IF lists[c].id = listId
           THEN [lists[c] EXCEPT !.leads =
                   [k \in 1..Len(@) |-> IF @[k].id = lead.id
                                           THEN [@[k] EXCEPT !.isEnriching = TRUE] ELSE @[k]]]
           ELSE lists[c]]

\* Mutant: the catch branch leaves the lead as it is.
RevertNothing(lists, listId, lead) == lists

\* The catch branch of handleEnrichListLead (lines 453-461).
RevertEnriching(lists, listId, lead) ==
    [c \in 1..Len(lists) |->
        IF lists[c].id = listId
           THEN [lists[c] EXCEPT !.leads =
                   [k \in 1..Len(@) |-> IF @[k].id = lead.id
                                           THEN [@[k] EXCEPT !.isEnriching = FALSE] ELSE @[k]]]
           ELSE lists[c]]

\* handleEnrichListLead, from the enrich button of a contact-list row.
\* Without an API key getClient throws before enrichLeadData's try block, so
\* the promise is rejected and the catch branch runs in the same task; with
\* a key the handler waits for the request.
handleEnrichListLead ==
    /\ selectedLead = NULL
    /\ ~WizardOpen
    /\ Len(listEnrich) < MaxListEnrich
    /\ \E c \in 1..Len(contactLists) : \E k \in 1..Len(contactLists[c].leads) :
          LET lead == contactLists[c].leads[k]
              listId == contactLists[c].id
              marked == MarkListLead(contactLists, listId, lead)
          IN IF ~hasApiKey
                THEN /\ contactLists' = RevertEnriching(marked, listId, lead)
                     /\ listEnrich' = Append(listEnrich, [lead |-> lead, listId |-> listId,
                                                          settled |-> TRUE, rejected |-> TRUE])
                ELSE /\ contactLists' = marked
                     /\ listEnrich' = Append(listEnrich, [lead |-> lead, listId |-> listId,
                                                          settled |-> FALSE, rejected |-> FALSE])
    /\ UNCHANGED <<projects, currentProject, activeCallLead, activeCallContext, panelVars,
                   hasApiKey, isDemoMode, runs, published, leadArrays, loadVars, evalVars,
                   wizardVars, emitted>>

\* handleEnrichListLead after enrichLeadData resolved (lines 433-451).
ListEnrichResolved ==
    \E n \in 1..Len(listEnrich) : \E data \in EnrichResponses :
       LET lead == listEnrich[n].lead
           listId == listEnrich[n].listId
           finalLead == ListEnrichResult(lead, enrichLeadData(lead, data))
       IN /\ ~listEnrich[n].settled
          /\ contactLists' = [c \in 1..Len(contactLists) |->
                IF contactLists[c].id = listId
                   THEN [contactLists[c] EXCEPT !.leads = ReplaceLead(@, finalLead)]
                   ELSE contactLists[c]]
          /\ listEnrich' = [listEnrich EXCEPT ![n].settled = TRUE]
          /\ UNCHANGED <<projects, currentProject, activeCallLead, activeCallContext, panelVars,
                         hasApiKey, isDemoMode, runs, published, leadArrays, loadVars,
                         evalVars, wizardVars, emitted>>

\* The demo data with or without an API key: leads saved to contact lists
\* and enriched there.
InitListEnrich ==
    /\ DemoLoaded
    /\ hasApiKey \in BOOLEAN
    /\ WizardAbsent

NextListEnrich ==
    \/ handleSaveToContactList
    \/ handleEnrichListLead
    \/ ListEnrichResolved

SpecListEnrich == InitListEnrich /\ [][NextListEnrich]_vars

\* The demo data with an API key in the environment: an enrichment run and
\* a search for more leads, each started while the other may be under way.
NextKeyedEnrich ==
    \/ BulkEnrich
    \/ EnrichResolved
    \/ handleLoadMoreLeads
    \/ LoadMoreResolved

SpecKeyedEnrich == InitKeyed /\ [][NextKeyedEnrich]_vars

\* The demo data with an API key in the environment: an enrichment run and
\* one call from a row, each started while the other may be under way.
NextEnrichCall ==
    \/ BulkEnrich
    \/ EnrichResolved
    \/ FirstRowCall
    \/ ShortCall

SpecEnrichCall == InitKeyed /\ [][NextEnrichCall]_vars

\* The same with every enrichment request resolving in the end.
SpecEnrichCallFair == SpecEnrichCall /\ WF_vars(EnrichResolved)

\* ------------------------------------------------- functions on their own
\* Leads with every combination of the fields that scoring and confidence
\* read: each contact field absent or present, the source absent, 'Manual'
\* or a URL, and the rating absent (0), below, at and above 4.0.
EvalLeads ==
    {[id |-> "E1", name |-> "Evaluated GmbH", website |-> website, phone |-> phone,
      email |-> email, ceo |-> ceo, status |-> "New", confidence |-> "Low", leadScore |-> 0,
      sourceUrl |-> sourceUrl, rating |-> rating, isEnriching |-> TRUE, callLogs |-> <<>>,
      lastCallResult |-> "", appointmentDate |-> <<>>] :
        website \in {"", "https://example.com"}, phone \in {"", "+49 30 1111"},
        email \in {"", "info@example.com"}, ceo \in {"", "An Owner"},
        sourceUrl \in {"", "Manual", "https://google.com/maps"}, rating \in {0, 39, 40, 50}}

\* Text as the sequence of its pieces: words, the comma and the double quote.
Comma == <<",">>
Quote == <<"\"">>

\* The leads handed to the CSV export: the free-text fields with and without
\* a comma, the description also absent.
ExportLeads ==
    {[name |-> name, leadScore |-> <<"95">>, category |-> <<"Software">>, address |-> address,
      website |-> <<"https://example.com">>, phone |-> <<"+49 30 1111">>,
      email |-> <<"info@example.com">>, emailStatus |-> <<"Validated">>, ceo |-> ceo,
      companyDescription |-> description, status |-> <<"New">>, lastCallResult |-> <<>>,
      appointmentDate |-> <<>>, sourceUrl |-> <<"https://google.com/maps">>] :
        name \in {<<"Nebula">>, <<"Nebula", ",", "Inc.">>},
        address \in {<<"Berlin">>, <<"Main St 1", ",", "Berlin">>},
        ceo \in {<<>>, <<"Sarah Miller">>, <<"Miller", ",", "Sarah">>},
        description \in {<<>>, <<"Builds apps">>, <<"Apps", ",", "sites">>}}

\* Array.prototype.join(',')
RECURSIVE Join(_)
Join(parts) ==
    IF Len(parts) = 0 THEN <<>>
    ELSE IF Len(parts) = 1 THEN parts[1]
    ELSE parts[1] \o Comma \o Join(Tail(parts))

\* `"${text}"`
Quoted(text) == Quote \o text \o Quote

\* The row handleExport writes for one lead (lines 117-132).
ExportRow(lead) ==
    Join(<<Quoted(lead.name), lead.leadScore, Quoted(lead.category), Quoted(lead.address),
           lead.website, lead.phone, lead.email, lead.emailStatus, lead.ceo,
           Quoted(lead.companyDescription), lead.status, Quoted(lead.lastCallResult),
           Quoted(lead.appointmentDate), lead.sourceUrl>>)

\* The App before anything was loaded, about to call one function.
InitEval ==
    /\ projects = <<>>
    /\ currentProject = NULL
    /\ contactLists = <<>>
    /\ selectedLead = NULL
    /\ formData = NULL
    /\ hasApiKey = TRUE
    /\ isDemoMode = FALSE
    /\ runs = <<>>
    /\ leadArrays = <<>>
    /\ listEnrich = <<>>
    /\ published = <<>>
    /\ isLoadingMore = FALSE
    /\ loadMore = <<>>
    /\ searches = <<>>
    /\ emitted = <<>>
    /\ WizardAbsent
    /\ evalResult = <<>>
    /\ \/ \E lead \in EvalLeads : evalCall = [fn |-> "calculateLeadScore", lead |-> lead]
       \/ \E fn \in {"BatchResult", "ListEnrichResult"} : \E lead \in EvalLeads :
             \E data \in EnrichResponses :
                evalCall = [fn |-> fn, lead |-> lead, enriched |-> enrichLeadData(lead, data)]
       \/ \E lead \in ExportLeads : evalCall = [fn |-> "handleExport", lead |-> lead]
       \/ \E outcome \in Outcomes : \E adherenceDraw \in AdherenceDraws :
             \E variance \in VarianceDraws :
                evalCall = [fn |-> "generateCallAnalysis", outcome |-> outcome,
                            adherenceDraw |-> adherenceDraw, variance |-> variance]

Returns(fn, value) ==
    /\ evalCall.fn = fn
    /\ evalResult = <<>>
    /\ evalResult' = <<value>>
    /\ UNCHANGED <<appVars, panelVars, enrichVars, loadVars, evalCall, wizardVars, emitted>>

EvalCalculateLeadScore == Returns("calculateLeadScore", calculateLeadScore(evalCall.lead))
EvalBatchResult == Returns("BatchResult", BatchResult(evalCall.lead, evalCall.enriched))
EvalListEnrichResult ==
    Returns("ListEnrichResult", ListEnrichResult(evalCall.lead, evalCall.enriched))

EvalHandleExport == Returns("handleExport", ExportRow(evalCall.lead))

EvalGenerateCallAnalysis ==
    Returns("generateCallAnalysis",
            generateCallAnalysis(evalCall.outcome, evalCall.adherenceDraw, evalCall.variance))

NextEval ==
    \/ EvalCalculateLeadScore
    \/ EvalBatchResult
    \/ EvalListEnrichResult
    \/ EvalHandleExport
    \/ EvalGenerateCallAnalysis

SpecEval == InitEval /\ [][NextEval]_vars

\* ================================================================ claims
\* The lead with the id of `lead` as stored in the container `context` names.
StoredLeads(ps, ls, lead, context) ==
    LET containers == IF context.type = "project" THEN ps ELSE ls
        named == {containers[i] : i \in {k \in 1..Len(containers) :
                                            containers[k].id = context.parentId}}
    IN UNION {{c.leads[j] : j \in {k \in 1..Len(c.leads) : c.leads[k].id = lead.id}} :
                c \in named}

\* The step table of section 4.3: the buttons that only change the step,
\* and the buttons that choose an outcome and go to SUMMARY.
StepTable ==
    {<<"CONNECT", "REACHED_WHOM">>, <<"REACHED_WHOM", "GATEKEEPER_PATH">>,
     <<"REACHED_WHOM", "DM_PATH">>, <<"GATEKEEPER_PATH", "DM_PATH">>,
     <<"DM_PATH", "INTEREST_SUBPATH">>, <<"INTEREST_SUBPATH", "APPOINTMENT">>}
OutcomeTable ==
    {<<"CONNECT", "No Answer">>, <<"GATEKEEPER_PATH", "Gatekeeper Blocked">>,
     <<"DM_PATH", "Not Interested">>, <<"INTEREST_SUBPATH", "Interested">>,
     <<"APPOINTMENT", "Appointment Set">>, <<"APPOINTMENT", "Interested">>}

\* C1: while the wizard is open in one of the six flow steps, every change
\* of the step or of the chosen outcome is a row of the table: either a
\* step-only button (outcome untouched) or an outcome button, which goes to
\* SUMMARY with the outcome of the table.
C1_TransitionTable ==
    [][(WizardOpen /\ WizardOpen' /\ callStep \in FlowSteps
          /\ (callStep' # callStep \/ selectedOutcome' # selectedOutcome))
       => \/ <<callStep, callStep'>> \in StepTable /\ selectedOutcome' = selectedOutcome
          \/ callStep' = "SUMMARY" /\ <<callStep, selectedOutcome'>> \in OutcomeTable]_vars

\* C1 witness: the longest path of the table was walked to its end.
C1_Witness ==
    WizardOpen /\ callStep = "SUMMARY" /\ selectedOutcome = "Appointment Set"
       /\ analysisIssued = 1

\* C5: the summary of an 'Appointment Set' outcome is only shown with a date
\* in the date field, every emitted CallLog with outcome 'Appointment Set'
\* carries an appointment date made of that date, and every other emitted
\* CallLog carries none.
C5_AppointmentNeedsDate ==
    /\ (WizardOpen /\ callStep = "SUMMARY" /\ selectedOutcome = "Appointment Set")
          => appointmentDate # ""
    /\ \A i \in 1..Len(emitted) :
          LET e == emitted[i]
          IN /\ e.log.outcome = "Appointment Set" <=> e.log.appointmentDate # <<>>
             /\ e.log.appointmentDate # <<>> => e.log.appointmentDate[1] # ""
             /\ e.appointmentDate = e.log.appointmentDate

C5_Witness ==
    \E i \in 1..Len(emitted) :
       emitted[i].log.outcome = "Appointment Set" /\ emitted[i].log.appointmentDate # <<>>

\* C6 as claimed: once the step is SUMMARY it stays SUMMARY for as long as
\* the wizard is open.
C6_SummaryTerminal ==
    [][(WizardOpen /\ WizardOpen' /\ callStep = "SUMMARY") => callStep' = "SUMMARY"]_vars

\* C6 amended: while the wizard stays open the step leaves SUMMARY only to
\* CONNECT (Back to Flow), and that leaves the chosen outcome, the emitted
\* logs and the stored projects and lists as they are.
C6_SummaryLeftOnlyBackToFlow ==
    [][(WizardOpen /\ WizardOpen' /\ callStep = "SUMMARY" /\ callStep' # "SUMMARY")
       => /\ callStep' = "CONNECT"
          /\ UNCHANGED <<selectedOutcome, emitted, projects, currentProject, contactLists>>]_vars

\* C6 witness: back in the flow with an outcome already chosen.
C6_Witness == WizardOpen /\ callStep = "CONNECT" /\ selectedOutcome # ""

C8_SaveEmitsOneLog ==
    [][(emitted' # emitted)
       => /\ WizardOpen /\ ~WizardOpen' /\ activeCallContext' = NULL
          /\ Len(emitted') = Len(emitted) + 1
          /\ SubSeq(emitted', 1, Len(emitted)) = emitted
          /\ LET log == emitted'[Len(emitted')].log
                 before == StoredLeads(projects, contactLists, activeCallLead, activeCallContext)
                 after == StoredLeads(projects', contactLists', activeCallLead, activeCallContext)
             IN /\ Cardinality(after) = 1
                /\ \A new \in after :
                      /\ new.callLogs = <<log>> \o activeCallLead.callLogs
                      /\ \A k \in 2..Len(new.callLogs) :
                            \E old \in before : \E m \in 1..Len(old.callLogs) :
                               old.callLogs[m] = new.callLogs[k]
                      /\ \A old \in before : \A m \in 1..Len(old.callLogs) :
                            old.callLogs[m] # log]_vars

\* C8 witness: a log was emitted and the wizard is closed.
C8_Witness == Len(emitted) = 1 /\ ~WizardOpen /\ activeCallContext = NULL

\* C9: as long as the session has saved nothing, open or closed, the
\* projects, the open project and the contact lists are what they were when
\* the wizard was opened.
C9_DiscardOnCancel ==
    emitted = <<>> => /\ projects = <<DemoProject>>
                      /\ currentProject = DemoProject
                      /\ contactLists = DemoContactLists

\* C9 witness: the wizard was closed without a save.
C9_Witness == ~WizardOpen /\ emitted = <<>>

\* ceil(n / 5)
Rounds(n) == (n + 4) \div 5

\* The batching discipline of one run: every request is for a target that no
\* other request of the run is for, the k-th request belongs to round
\* ceil(k / 5), at most 5 requests are outstanding, a request of a later
\* round exists only once every request of the earlier rounds has resolved,
\* and a completed run has made one request per target in ceil(N / 5) rounds.
BatchDiscipline(run) ==
    LET req == run.requests
        N == Len(run.leadsToEnrich)
        outstanding == {k \in 1..Len(req) : ~req[k].resolved}
    IN /\ Len(req) <= N
       /\ \A k \in 1..Len(req) :
             /\ req[k].id = run.leadsToEnrich[k].id
             /\ req[k].round = Rounds(k)
             /\ \A m \in 1..Len(req) : req[m].id = req[k].id => m = k
       /\ Cardinality(outstanding) <= 5
       /\ \A k, m \in 1..Len(req) : req[k].round < req[m].round => req[k].resolved
       /\ run.phase = "done" =>
             /\ Len(req) = N
             /\ outstanding = {}
             /\ req[N].round = Rounds(N)

\* C2 as claimed: every processEnrichment run keeps the batching discipline.
C2_EveryRunBatched == \A r \in 1..Len(runs) : BatchDiscipline(runs[r])

\* C2 amended: a run started with an API key configured keeps the batching
\* discipline; a run started in demo mode without an API key makes no
\* enrichLeadData call at all and ends on its timer.
C2_BatchedUnlessDemo ==
    \A r \in 1..Len(runs) :
       IF runs[r].demo
          THEN runs[r].requests = <<>> /\ ~hasApiKey /\ isDemoMode
          ELSE hasApiKey /\ BatchDiscipline(runs[r])

\* C2 witness: a run over more than five targets has completed, and so has
\* its second round.
C2_Witness ==
    \E r \in 1..Len(runs) :
       /\ runs[r].phase = "done" /\ ~runs[r].demo
       /\ Len(runs[r].leadsToEnrich) > 5
       /\ runs[r].requests[Len(runs[r].requests)].round = 2

InFlight(project) == \E k \in 1..Len(project.leads) : project.leads[k].isEnriching

\* C4 as claimed: the state a run publishes when it marks its targets, and
\* every state it publishes while a lead is still in flight, has status
\* 'Enriching'; no published state has status 'Completed' with a lead in
\* flight.
C4_EnrichingUntilMerged ==
    \A k \in 1..Len(published) :
       LET pub == published[k]
       IN /\ pub.line \in {123, 139} => pub.project.status = "Enriching"
          /\ (pub.line = 168 /\ InFlight(pub.project)) => pub.project.status = "Enriching"
          /\ pub.project.status = "Completed" => ~InFlight(pub.project)

\* C3 as claimed: in the state a run publishes on completing (line 173, or
\* line 127 for a simulated run) none of the run's targets is in flight,
\* and the status is 'Completed' if no lead of that state is in flight and
\* 'Enriching' otherwise.
C3_CompletedIffNoneInFlight ==
    \A k \in 1..Len(published) :
       LET pub == published[k]
           targets == SeqIds(runs[pub.run].leadsToEnrich)
       IN pub.line \in {127, 173} =>
             /\ \A m \in 1..Len(pub.project.leads) :
                   pub.project.leads[m].id \in targets => ~pub.project.leads[m].isEnriching
             /\ pub.project.status = (IF InFlight(pub.project) THEN "Enriching" ELSE "Completed")

IsSuffix(old, new) ==
    /\ Len(old) <= Len(new)
    /\ SubSeq(new, Len(new) - Len(old) + 1, Len(new)) = old

\* Every lead of the containers `after` keeps, at the end of its callLogs,
\* the callLogs that the lead with its id had in the container of the same
\* position in `before`.
LogsKept(before, after) ==
    \A c \in 1..Len(before) : \A k \in 1..Len(before[c].leads) :
       c <= Len(after) =>
          \A m \in 1..Len(after[c].leads) :
             after[c].leads[m].id = before[c].leads[k].id
                => IsSuffix(before[c].leads[k].callLogs, after[c].leads[m].callLogs)

\* C10 as claimed: in every step, each lead of every project and of every
\* contact list keeps the call logs it had, unchanged and in their order,
\* behind whatever the step added at the front.
C10_CallLogsAppendOnly ==
    [][LogsKept(projects, projects') /\ LogsKept(contactLists, contactLists')]_vars

\* C20 as claimed: a step that starts or stops the recording without
\* choosing an outcome leaves the step and the chosen outcome alone, no
\* recorder is recording while the step is SUMMARY, and none is recording
\* when a CallLog is saved.
C20_RecordingOffInSummary ==
    [][/\ (WizardOpen /\ WizardOpen' /\ analysisIssued' = analysisIssued
             /\ <<isRecording, mediaRecorder, micPending>>' # <<isRecording, mediaRecorder, micPending>>)
          => UNCHANGED <<callStep, selectedOutcome>>
       /\ (WizardOpen' /\ callStep' = "SUMMARY")
          => (~isRecording' /\ mediaRecorder' # "recording")
       /\ (emitted' # emitted) => (~isRecording /\ mediaRecorder # "recording")]_vars

\* The weights of the claim.
Weight(field) == CASE field \in {"email", "website"} -> 25 [] field \in {"ceo", "phone"} -> 15

\* C13: calculateLeadScore returns the sum of the weights of the fields
\* present, +10 for a source that is present and not 'Manual', +10 for a
\* rating of at least 4.0, capped at 100; the result is in 0..100, and
\* adding a contact field that was absent raises it by that field's weight.
C13_ScoreIsWeightedSum ==
    (evalCall.fn = "calculateLeadScore" /\ evalResult # <<>>) =>
       LET lead == evalCall.lead
           present == {f \in {"email", "website", "ceo", "phone"} : lead[f] # ""}
           sum == 25 * Cardinality(present \cap {"email", "website"})
                  + 15 * Cardinality(present \cap {"ceo", "phone"})
                  + (IF lead.sourceUrl \notin {"", "Manual"} THEN 10 ELSE 0)
                  + (IF lead.rating >= 40 THEN 10 ELSE 0)
       IN /\ evalResult[1] = (IF sum > 100 THEN 100 ELSE sum)
          /\ evalResult[1] \in 0..100
          /\ \A f \in {"email", "website", "ceo", "phone"} \ present :
                calculateLeadScore([lead EXCEPT ![f] = "added"]) = evalResult[1] + Weight(f)

\* C13 witness: the score of a lead with every field, and the score of a
\* lead with none, were computed.
C13_Witness ==
    /\ evalCall.fn = "calculateLeadScore"
    /\ evalResult \in {<<100>>, <<0>>}

\* C15: the confidence of an enriched lead, in a project batch or in a
\* contact list, is 'High' with email, CEO and website all present,
\* otherwise 'Medium' with an email or a CEO, otherwise 'Low'.
C15_ConfidenceRule ==
    (evalCall.fn \in {"BatchResult", "ListEnrichResult"} /\ evalResult # <<>>) =>
       LET merged == evalResult[1]
       IN /\ merged.email = evalCall.enriched.email
          /\ merged.ceo = evalCall.enriched.ceo
          /\ merged.website = evalCall.enriched.website
          /\ merged.confidence =
                (IF merged.email # "" /\ merged.ceo # "" /\ merged.website # "" THEN "High"
                 ELSE IF merged.email # "" \/ merged.ceo # "" THEN "Medium"
                 ELSE "Low")

\* C15 witness: a lead with an email and a CEO but no website was enriched
\* in a list.
C15_Witness ==
    /\ evalCall.fn = "ListEnrichResult"
    /\ evalResult # <<>>
    /\ evalResult[1].email # "" /\ evalResult[1].ceo # "" /\ evalResult[1].website = ""
    /\ evalResult[1].confidence = "Medium"

\* The lead with the given id in a sequence of leads, as a set.
LeadsWithId(leads, id) == {leads[k] : k \in {m \in 1..Len(leads) : leads[m].id = id}}

\* C12 as claimed: in the state a run publishes after merging a batch, a
\* target whose enrichment call failed has the field values it had when the
\* call was made, confidence and leadScore included, and is no longer in
\* flight; it was requested once.
C12_FailedEnrichmentKeepsLead ==
    \A k \in 1..Len(published) :
       LET pub == published[k]
           run == runs[pub.run]
       IN pub.line = 168 =>
             \A q \in 1..Len(run.requests) :
                (q <= run.i /\ run.requests[q].failed) =>
                   /\ LeadsWithId(pub.project.leads, run.requests[q].id)
                         = {[run.leadsToEnrich[q] EXCEPT !.isEnriching = FALSE]}
                   /\ \A m \in 1..Len(run.requests) :
                         run.requests[m].id = run.requests[q].id => m = q

\* C11 as claimed: in every step, every project stays and keeps every lead
\* id it had.
C11_LeadsNeverDropped ==
    [][/\ Len(projects') >= Len(projects)
       /\ \A p \in 1..Len(projects) : \E n \in 1..Len(projects') :
             /\ projects'[n].id = projects[p].id
             /\ SeqIds(projects[p].leads) \subseteq SeqIds(projects'[n].leads)]_vars

\* C14 as claimed: in every state, the leadScore stored with a lead of a
\* project or of a contact list is calculateLeadScore of that lead.
C14_StoredScoreIsComputed ==
    /\ \A p \in 1..Len(projects) : \A k \in 1..Len(projects[p].leads) :
          projects[p].leads[k].leadScore = calculateLeadScore(projects[p].leads[k])
    /\ currentProject # NULL =>
          \A k \in 1..Len(currentProject.leads) :
             currentProject.leads[k].leadScore = calculateLeadScore(currentProject.leads[k])
    /\ \A c \in 1..Len(contactLists) : \A k \in 1..Len(contactLists[c].leads) :
          contactLists[c].leads[k].leadScore = calculateLeadScore(contactLists[c].leads[k])

\* Names that differ in letter case only.
NameClasses == {{"Nebula Innovations GmbH", "NEBULA INNOVATIONS GMBH"}}
SameNameIgnoringCase(a, b) == a = b \/ \E class \in NameClasses : {a, b} \subseteq class

\* The leads of `after` whose id `before` does not hold.
AddedLeads(before, after) ==
    {after[k] : k \in {j \in 1..Len(after) : after[j].id \notin SeqIds(before)}}

\* C16: a step that settles a handleLoadMoreLeads call adds to a project no
\* lead whose name equals, ignoring letter case, the name of a lead the
\* project held before the step.
C16_LoadMoreAddsNoKnownName ==
    [][(\E n \in 1..Len(loadMore) : ~loadMore[n].settled /\ loadMore'[n].settled) =>
          \A p \in 1..Len(projects) :
             \A added \in AddedLeads(projects[p].leads, projects'[p].leads) :
                \A k \in 1..Len(projects[p].leads) :
                   ~SameNameIgnoringCase(added.name, projects[p].leads[k].name)]_vars

\* A search for more leads has settled on a result naming a business of the
\* project in other letter case, and the project holds that name once.
C16_Witness ==
    \E n \in 1..Len(loadMore) :
       /\ loadMore[n].settled
       /\ \E k \in 1..Len(loadMore[n].rawLeads) :
             loadMore[n].rawLeads[k].name = "NEBULA INNOVATIONS GMBH"
       /\ Cardinality({k \in 1..Len(projects[1].leads) :
             SameNameIgnoringCase(projects[1].leads[k].name, "NEBULA INNOVATIONS GMBH")}) = 1

\* C17 as claimed: in every state, no two leads of one project have names
\* that are equal ignoring letter case.
C17_NamesUniqueInProject ==
    \A p \in 1..Len(projects) :
       \A j, k \in 1..Len(projects[p].leads) :
          j # k => ~SameNameIgnoringCase(projects[p].leads[j].name, projects[p].leads[k].name)

\* The leads the project of projects' with the id of `project` gained in
\* the step: all it has when projects held no project of that id.
GainedLeads(project) ==
    LET held == {i \in 1..Len(projects) : projects[i].id = project.id}
    IN IF held = {} THEN AddedLeads(<<>>, project.leads)
       ELSE AddedLeads(projects[CHOOSE i \in held : TRUE].leads, project.leads)

PassesFilters(lead, filters) ==
    /\ filters.mustHaveWebsite => lead.website # ""
    /\ filters.minRating > 0 => lead.rating >= filters.minRating

\* C18: every lead a step adds to a project, and to the open project,
\* passes the project's filters: a website when mustHaveWebsite is on, a
\* rating of at least minRating when minRating > 0, no rating counting as 0.
C18_AddedLeadsPassFilters ==
    [][/\ \A p \in 1..Len(projects') :
             \A lead \in GainedLeads(projects'[p]) : PassesFilters(lead, projects'[p].filters)
       /\ currentProject' # NULL =>
             \A lead \in GainedLeads(currentProject') :
                PassesFilters(lead, currentProject'.filters)]_vars

\* A search with both filters on has settled on a result holding a
\* business without a rating, and its project holds leads; and a search for
\* more leads in a project with both filters on has settled on a result
\* holding a business without a website.
C18_Witness ==
    \/ \E n \in 1..Len(searches) :
          /\ searches[n].settled
          /\ searches[n].params.mustHaveWebsite /\ searches[n].params.minRating > 0
          /\ \E k \in 1..Len(searches[n].rawLeads) : searches[n].rawLeads[k].rating = 0
          /\ \E p \in 1..Len(projects) :
                projects[p].id = searches[n].newProject.id /\ Len(projects[p].leads) > 0
    \/ \E n \in 1..Len(loadMore) :
          /\ loadMore[n].settled
          /\ loadMore[n].project.filters.mustHaveWebsite
          /\ \E k \in 1..Len(loadMore[n].rawLeads) : loadMore[n].rawLeads[k].website = ""

\* C19 as claimed: no step changes the elements of a lead array that has
\* been handed to application state.
C19_HandedArraysNotWritten ==
    [][\A a \in 1..Len(leadArrays) :
          leadArrays[a].handed => leadArrays'[a].leads = leadArrays[a].leads]_vars

\* C21 as claimed: the first analysis of a session to complete leaves the
\* sentiment alone when one is set, which then is the user's pick.
C21_AnalysisKeepsUserSentiment ==
    [][(/\ WizardOpen /\ activeCallLead' # NULL
        /\ generatedAnalysis = NULL /\ generatedAnalysis' # NULL
        /\ manualSentiment # "") => manualSentiment' = manualSentiment]_vars

\* The leads of a container other than the one the log is stored on keep
\* their place and their values.
OtherLeadsKept(before, after, id) ==
    /\ Len(after) = Len(before)
    /\ \A k \in 1..Len(before) : before[k].id # id => after[k] = before[k]

\* C22: a step that saves a call log changes only the copy of the lead in
\* the project or contact list the call context names: every other
\* project and contact list is unchanged, and so is every other lead of
\* that container.
C22_OnlyContextCopyChanges ==
    [][Len(emitted') > Len(emitted) =>
          LET parentId == activeCallContext.parentId
              id == activeCallLead.id
          IN /\ Len(projects') = Len(projects) /\ Len(contactLists') = Len(contactLists)
             /\ IF activeCallContext.type = "project"
                   THEN /\ contactLists' = contactLists
                        /\ \A i \in 1..Len(projects) :
                              IF projects[i].id = parentId
                                 THEN OtherLeadsKept(projects[i].leads, projects'[i].leads, id)
                                 ELSE projects'[i] = projects[i]
                   ELSE /\ projects' = projects
                        /\ currentProject' = currentProject
                        /\ \A i \in 1..Len(contactLists) :
                              IF contactLists[i].id = parentId
                                 THEN OtherLeadsKept(contactLists[i].leads,
                                                     contactLists'[i].leads, id)
                                 ELSE contactLists'[i] = contactLists[i]]_vars

\* A log was saved for a lead that two contact lists and the project hold,
\* and the copies now differ.
C22_Witness ==
    /\ Len(emitted) > 0
    /\ Len(contactLists) = 2
    /\ \E j \in 1..Len(contactLists[1].leads) : \E k \in 1..Len(contactLists[2].leads) :
          \E n \in 1..Len(projects[1].leads) :
             /\ contactLists[1].leads[j].id = contactLists[2].leads[k].id
             /\ contactLists[1].leads[j].id = projects[1].leads[n].id
             /\ contactLists[1].leads[j].callLogs # contactLists[2].leads[k].callLogs
             /\ contactLists[2].leads[k].callLogs = projects[1].leads[n].callLogs

\* The fields a CSV reader splits a row into: a comma separates fields
\* unless it stands between double quotes.
RECURSIVE SplitCsv(_, _, _, _)
SplitCsv(row, i, inQuotes, field) ==
    IF i > Len(row) THEN <<field>>
    ELSE IF row[i] = "\"" THEN SplitCsv(row, i + 1, ~inQuotes, field)
    ELSE IF row[i] = "," /\ ~inQuotes THEN <<field>> \o SplitCsv(row, i + 1, FALSE, <<>>)
    ELSE SplitCsv(row, i + 1, inQuotes, Append(field, row[i]))

\* C23 as claimed: an exported row parses to exactly 14 fields, which are
\* the lead's values in the order of the header.
C23_RowParsesToHeaderFields ==
    (evalCall.fn = "handleExport" /\ evalResult # <<>>) =>
       LET lead == evalCall.lead
       IN SplitCsv(evalResult[1], 1, FALSE, <<>>) =
             <<lead.name, lead.leadScore, lead.category, lead.address, lead.website,
               lead.phone, lead.email, lead.emailStatus, lead.ceo, lead.companyDescription,
               lead.status, lead.lastCallResult, lead.appointmentDate, lead.sourceUrl>>

C25_RejectedListEnrichmentKeepsLead ==
    [][(Len(listEnrich') > Len(listEnrich) /\ listEnrich'[Len(listEnrich')].rejected) =>
          LET call == listEnrich'[Len(listEnrich')]
          IN /\ projects' = projects
             /\ currentProject' = currentProject
             /\ Len(contactLists') = Len(contactLists)
             /\ \A c \in 1..Len(contactLists) :
                   IF contactLists[c].id # call.listId
                      THEN contactLists'[c] = contactLists[c]
                      ELSE /\ OtherLeadsKept(contactLists[c].leads, contactLists'[c].leads,
                                             call.lead.id)
                           /\ \A k \in 1..Len(contactLists[c].leads) :
                                 contactLists[c].leads[k].id = call.lead.id =>
                                    /\ ~contactLists'[c].leads[k].isEnriching
                                    /\ [contactLists'[c].leads[k] EXCEPT !.isEnriching =
                                          contactLists[c].leads[k].isEnriching]
                                       = contactLists[c].leads[k]]_vars

\* Without an API key, the enrichment of a lead that two contact lists hold
\* was rejected.
C25_Witness ==
    /\ ~hasApiKey
    /\ Len(contactLists) = 2
    /\ \E n \in 1..Len(listEnrich) :
          /\ listEnrich[n].rejected
          /\ \A c \in 1..2 : listEnrich[n].lead.id \in SeqIds(contactLists[c].leads)

\* C26 as claimed: a step that saves a call log is taken with no analysis
\* request pending, and with the analysis of the outcome it saves.
C26_SaveAfterOwnAnalysis ==
    [][(emitted' # emitted) =>
          /\ analysisQueue = <<>>
          /\ \E draw \in AnalysisDraws :
                generatedAnalysis = generateCallAnalysis(selectedOutcome, draw[1], draw[2])]_vars

\* C27 as claimed: a step that saves a call log leaves every field of the
\* stored lead other than callLogs, lastCallResult, status and
\* appointmentDate as it was stored before the step.
C27_SaveKeepsOtherFields ==
    [][(emitted' # emitted) =>
          LET before == StoredLeads(projects, contactLists, activeCallLead, activeCallContext)
              after == StoredLeads(projects', contactLists', activeCallLead, activeCallContext)
          IN \A old \in before : \A new \in after :
                [new EXCEPT !.callLogs = old.callLogs,
                            !.lastCallResult = old.lastCallResult,
                            !.status = old.status,
                            !.appointmentDate = old.appointmentDate] = old]_vars

\* C28 as claimed: in every state, the open project has the leads and the
\* status of the project with its id in the project list.
C28_OpenProjectMatchesList ==
    currentProject # NULL =>
       \A p \in 1..Len(projects) :
          projects[p].id = currentProject.id =>
             /\ projects[p].leads = currentProject.leads
             /\ projects[p].status = currentProject.status

\* The lead with the given id is stored in a project with its flag set.
StoredInFlight(id) ==
    \E p \in 1..Len(projects) : \E k \in 1..Len(projects[p].leads) :
       projects[p].leads[k].id = id /\ projects[p].leads[k].isEnriching

\* C29 as claimed: with every enrichment request resolving in the end, a
\* lead stored with isEnriching set is eventually stored with it cleared.
C29_FlagEventuallyCleared ==
    \A id \in SeqIds(DemoLeads) : StoredInFlight(id) ~> ~StoredInFlight(id)

\* The classification C30 states: sentiment, confidence, base score, and
\* whether the adherence is fixed at 100.
AnalysisTable(outcome) ==
    CASE outcome = "Appointment Set" -> <<"Positive", "High", 95, FALSE>>
      [] outcome = "Interested" -> <<"Positive", "High", 80, FALSE>>
      [] outcome \in {"No Answer", "Gatekeeper Blocked"} -> <<"Neutral", "Medium", 40, TRUE>>
      [] outcome = "Not Interested" -> <<"Negative", "Medium", 60, FALSE>>

\* C30 as claimed: generateCallAnalysis returns, for each of the five
\* outcomes, the sentiment and confidence of its row, a callScore of the
\* row's base score plus the variance, an adherence of 100 where the row
\* fixes it, and callScore and scriptAdherence in 0..100.
C30_AnalysisClassifiesOutcome ==
    (evalCall.fn = "generateCallAnalysis" /\ evalResult # <<>>) =>
       LET row == AnalysisTable(evalCall.outcome)
           analysis == evalResult[1]
       IN /\ analysis.sentiment = row[1]
          /\ analysis.confidence = row[2]
          /\ analysis.callScore = row[3] + evalCall.variance
          /\ row[4] => analysis.scriptAdherence = 100
          /\ analysis.callScore \in 0..100
          /\ analysis.scriptAdherence \in 0..100
====
